---- MODULE Spec2Model ----
(***************************************************************************)
(* Model of the peer discovery, connection, gossip and store-and-forward   *)
(* engine of PrivateNetworks: PeerManager (services/peerManager.ts), the    *)
(* WebRTCService it drives (services/webrtc.ts) and the PeerStorageService  *)
(* (services/peerStorage.ts).  Every device runs the same code; the state   *)
(* of each object is a function of the device.  A JavaScript handler runs   *)
(* to its next await without interleaving, so an action is the code between *)
(* two awaits, and an asynchronous call in progress is a stack of frames.   *)
(***************************************************************************)
EXTENDS Integers, Sequences, FiniteSets, TLC

(* ------------------------------ bounds -------------------------------- *)
\* Date.now() is read on a coarse clock 0..MaxTime
MaxTime == 2
\* peer ids of one user: generation 0 is the id registered for signaling,
\* the others are ids made up by getCurrentPeerId / handlePeerFound
MaxGen == 1
\* discovery request ids a device has to choose from (an id is reused once no
\* pending request and no message in flight names it)
MaxReq == 2
\* depth of nested connectToPeer calls (connectToPeer -> queryCoordinators -> connectToPeer)
MaxDepth == 3
\* calls of sendMessage per device
MaxSends == 2
\* times one payload is forwarded in RELAY envelopes before the model stops counting
MaxHops == 4
\* iterations of one queue flush before the model stops counting
MaxFlush == 3
\* seconds between the epoch of Date.now() and the first tick of the clock
Epoch == 1
\* the maxAge a cleanup is called with, in ticks of one second
MaxAgeTicks == 1

(* --------------------------- program constants ------------------------ *)
MAX_ACTIVE_CONNECTIONS == 5
\* milliseconds in a second: the SQLite cleanup divides its cutoff by it
MsPerSecond == 1000

(* ------------------------------ domains ------------------------------- *)
\* the devices whose state is kept, and the users of the network
Dev == {"A", "B", "C", "D"}
Users == Dev \cup {"E", "F", "G", "K"}
Gens == 0 .. MaxGen
PeerIds == Users \X Gens
Addrs == {"s1", "s2"}
Payloads == {"m1", "m2"}
Times == 0 .. MaxTime
NetId == "net1"
NoNet == "none"
NoPeer == <<"none", 0>>
UserOf(p) == p[1]
DeviceId(d) == <<d, 0>>
Via(u) == "via " \o u

(* ------------------------------- state -------------------------------- *)
VARIABLES
  now,               \* Date.now()
  currentNetworkId,  \* PeerManager.currentNetworkId
  currentUserId,     \* PeerManager.currentUserId
  timers,            \* PeerManager.heartbeatTimer, p2pPresenceTimer, registryPresenceTimer
  connections,       \* PeerManager.connections : insertion-ordered Map peerId -> PeerConnection
  peerCache,         \* PeerManager.peerCache   : insertion-ordered Map peerId -> PeerInfo
  networkMembers,    \* PeerManager.networkMembers : Map userId -> PeerStatus
  messageQueue,      \* PeerManager.messageQueue : Map userId -> array
  discoveryRequests, \* PeerManager.discoveryRequests : pending request ids
  stack,             \* the asynchronous call in progress: frames, innermost last
  running,           \* the devices whose code runs; the others are the environment
  wconns,            \* WebRTCService.connections : Map peerId -> WebRTCConnection
  config,            \* WebRTCService.config # null
  sigOpen,           \* WebRTCService.signalingSocket: "none", "open", or "closed" with a reconnect pending
  storage,           \* peerStorage: "sqlite" (db open), "fallback" (AsyncStorage) or "closed" (db = null)
  routes,            \* table peer_routes of the current network: userId -> row
  offline,           \* table offline_messages: rows in insertion order
  net,               \* P2P messages sent on a data channel and not yet received
  registryCalls,     \* history: calls of authAPI.getNetworkPeer
  received,          \* history: payloads a device's message handlers were given
  results,           \* history: what each sendMessage call returned
  teardown,          \* history: the steps of the last destroy(), in the order they ran
  abandoned          \* history: calls whose discovery request destroy() dropped unsettled

vars == << now, currentNetworkId, currentUserId, timers, connections, peerCache,
           networkMembers, messageQueue, discoveryRequests, stack, running,
           wconns, config, sigOpen, storage, routes, offline, net,
           registryCalls, received, results, teardown, abandoned >>

(* --------------------- insertion-ordered JS Map ------------------------ *)
\* a Map is a sequence of [k, v]; iteration is in insertion order
MapKeys(m) == {m[i].k : i \in 1 .. Len(m)}
MapHas(m, key) == key \in MapKeys(m)
MapIdx(m, key) == CHOOSE i \in 1 .. Len(m) : m[i].k = key
MapGet(m, key) == m[MapIdx(m, key)].v
\* Map.set keeps the position of an existing key
MapSet(m, key, val) ==
  IF MapHas(m, key)
    THEN [m EXCEPT ![MapIdx(m, key)] = [k |-> key, v |-> val]]
    ELSE Append(m, [k |-> key, v |-> val])
MapDel(m, key) == SelectSeq(m, LAMBDA e : e.k # key)
MapKeys2Seq(m) == [i \in 1 .. Len(m) |-> m[i].k]
MapValues(m) == [i \in 1 .. Len(m) |-> m[i].v]

\* a Map whose order is never observed is a function with a finite domain
FnSet(f, key, val) == (key :> val) @@ f
FnDel(f, key) == [x \in (DOMAIN f) \ {key} |-> f[x]]
EmptyFn == << >>

(* ------------------------------ records ------------------------------- *)
\* interface PeerInfo (connectionState is written and never read: left out)
PeerInfo(u, p, addr, ls, coord, relay, path) ==
  [userId |-> u, peerId |-> p, signalAddress |-> addr, lastSeen |-> ls,
   isCoordinator |-> coord, canRelay |-> relay, connectionPath |-> path]
NoInfo == PeerInfo("none", NoPeer, "s1", 0, FALSE, FALSE, "none")

\* a P2P wire message; the fields a message kind does not carry hold defaults.
\* hops is a history field: how often the payload was wrapped in a RELAY envelope
Msg(type, req, user, body, info, hops) ==
  [type |-> type, requestId |-> req, user |-> user, body |-> body,
   info |-> info, hops |-> hops, networkId |-> "none", known |-> << >>, members |-> << >>]

\* one invocation of an async method, suspended at pc
Frame(fn, pc, user, body, hops) ==
  [fn |-> fn, pc |-> pc, user |-> user, body |-> body, hops |-> hops,
   info |-> NoInfo, req |-> 0, asked |-> {}, coords |-> << >>, conn |-> NoPeer,
   tried |-> << >>, links |-> {}, idx |-> 0, len0 |-> 0]

ReqIds == 1 .. MaxReq
Top(d) == stack[d][Len(stack[d])]
CtpDepth(d) == Cardinality({i \in 1 .. Len(stack[d]) : stack[d][i].fn = "connectToPeer"})
\* pcs at which the code runs on without yielding to the event loop
SyncPcs == {"t1", "t4", "t4n", "t5", "nf", "est", "reg", "ret", "f1", "f2"}
\* a handler of device d may start only when no synchronous code of d is pending
Busy(d) == stack[d] # << >> /\ Top(d).pc \in SyncPcs
Idle(d) == d \in running /\ ~Busy(d)
SetTop(d, f) == [stack EXCEPT ![d] = [@ EXCEPT ![Len(@)] = f]]

(* --------------------------- WebRTCService ----------------------------- *)
\* getActiveConnections: state connected and data channel open
WActive(d) ==
  {p \in DOMAIN wconns[d] : wconns[d][p].state = "connected" /\ wconns[d][p].dc = "open"}

\* sendMessage(peerId, message) returns true iff the entry exists with an open channel
WCanSend(d, p) == p \in DOMAIN wconns[d] /\ wconns[d][p].dc = "open"

\* what a successful send puts on the wire: a message to a device whose code
\* runs; the environment consumes what is sent to the other devices
Wire(d, p, m) ==
  IF WCanSend(d, p) /\ UserOf(p) \in running /\ p[2] = 0
    THEN {[dst |-> UserOf(p), from |-> DeviceId(d), msg |-> m]}
    ELSE {}

\* broadcastMessage: sendMessage to every active connection
Broadcast(d, m) == UNION {Wire(d, p, m) : p \in WActive(d)}

\* history: who holds an active connection to which peer id
Links == UNION {{<<x, p>> : p \in WActive(x)} : x \in running}

\* the smallest request id no pending request and no message in flight names
FreeReqs(d) ==
  {r \in ReqIds : r \notin discoveryRequests[d]
                  /\ \A x \in net : ~(x.msg.requestId = r /\ (x.dst = d \/ x.from = DeviceId(d)))}
NewReq(d) == CHOOSE r \in FreeReqs(d) : \A q \in FreeReqs(d) : r <= q

(* ------------------------ PeerManager: discovery ----------------------- *)
\* findExistingConnection: the first connection, in Map order, that is
\* connected and whose peerCache entry names the user
FindExistingConnection(d, u) ==
  LET m == connections[d]
      hits == {i \in 1 .. Len(m) :
                 /\ m[i].v.state = "connected"
                 /\ MapHas(peerCache[d], m[i].k)
                 /\ MapGet(peerCache[d], m[i].k).userId = u}
  IN IF hits = {} THEN NoPeer
     ELSE m[CHOOSE i \in hits : \A j \in hits : i <= j].k

\* connectToPeer up to its first await: tier 1, and on a miss queryConnectedPeers
\* registers a request and broadcasts PEER_QUERY
Tier1(d) ==
  /\ d \in running /\ stack[d] # << >> /\ Top(d).pc = "t1"
  /\ LET f == Top(d)
         existing == FindExistingConnection(d, f.user)
     IN IF existing # NoPeer
          THEN /\ stack' = SetTop(d, [f EXCEPT !.pc = "ret", !.conn = existing, !.tried = <<1>>])
               /\ UNCHANGED <<discoveryRequests, net>>
          ELSE /\ FreeReqs(d) # {}
               /\ LET r == NewReq(d)
                  IN /\ discoveryRequests' = [discoveryRequests EXCEPT ![d] = @ \cup {r}]
                     /\ net' = net \cup Broadcast(d, Msg("PEER_QUERY", r, f.user, "none", NoInfo, 0))
                     /\ stack' = SetTop(d, [f EXCEPT !.pc = "t2", !.req = r,
                                              !.asked = WActive(d), !.tried = <<1, 2>>])
  /\ UNCHANGED <<now, currentNetworkId, currentUserId, timers, connections, peerCache,
                 networkMembers, messageQueue, running, wconns, config, sigOpen, storage,
                 routes, offline, registryCalls, received, results, teardown, abandoned>>

\* the frame, if any, that awaits the promise of request r
Awaits(d, r) ==
  stack[d] # << >> /\ Top(d).pc \in {"t2", "t4w"} /\ Top(d).req = r

\* handlePeerFound without discoveryRequests.delete: the request stays pending
HandlePeerFoundKeepsRequest(d, m, g) ==
  IF m.requestId \in discoveryRequests[d]
    THEN /\ UNCHANGED discoveryRequests
         /\ LET pi == PeerInfo(m.user, <<m.user, g>>, m.info.signalAddress,
                               m.info.lastSeen, FALSE, m.info.canRelay, "none")
            IN IF Awaits(d, m.requestId)
                 THEN stack' = SetTop(d, [Top(d) EXCEPT !.pc = "est", !.info = pi])
                 ELSE UNCHANGED stack
    ELSE UNCHANGED <<discoveryRequests, stack>>

\* handlePeerFound: a pending request is retired and resolved with a PeerInfo
\* whose peerId is made up from the clock; any other reply is ignored
HandlePeerFound(d, m, g) ==
  IF m.requestId \in discoveryRequests[d]
    THEN /\ discoveryRequests' = [discoveryRequests EXCEPT ![d] = @ \ {m.requestId}]
         /\ LET pi == PeerInfo(m.user, <<m.user, g>>, m.info.signalAddress,
                               m.info.lastSeen, FALSE, m.info.canRelay, "none")
            IN IF Awaits(d, m.requestId)
                 THEN stack' = SetTop(d, [Top(d) EXCEPT !.pc = "est", !.info = pi])
                 ELSE UNCHANGED stack
    ELSE UNCHANGED <<discoveryRequests, stack>>

\* the setTimeout callback of queryConnectedPeers / queryCoordinators:
\* the request is retired and resolved with null
DiscoveryTimeout(d) ==
  /\ Idle(d) /\ stack[d] # << >>
  /\ Top(d).pc \in {"t2", "t4w"} /\ Top(d).req \in discoveryRequests[d]
  /\ discoveryRequests' = [discoveryRequests EXCEPT ![d] = @ \ {Top(d).req}]
  /\ stack' = SetTop(d, IF Top(d).pc = "t2"
                          THEN [Top(d) EXCEPT !.pc = "t3", !.tried = Append(@, 3)]
                          ELSE [Top(d) EXCEPT !.pc = "t5"])
  /\ UNCHANGED <<now, currentNetworkId, currentUserId, timers, connections, peerCache,
                 networkMembers, messageQueue, running, wconns, config, sigOpen, storage,
                 routes, offline, net, registryCalls, received, results,
                 teardown, abandoned>>

\* peerStorage.getPeerRoute succeeds when the database is open
CanRead(d) == currentNetworkId[d] # NoNet /\ storage[d] # "closed"

\* queryCachedPeer: tier 3
QueryCachedPeer(d) ==
  /\ Idle(d) /\ stack[d] # << >> /\ Top(d).pc = "t3"
  /\ LET f == Top(d)
     IN IF CanRead(d) /\ f.user \in DOMAIN routes[d]
          THEN LET r == routes[d][f.user]
               IN stack' = SetTop(d, [f EXCEPT !.pc = "est",
                      !.info = PeerInfo(f.user, r.peerId, r.signalAddress, r.lastSeen,
                                        FALSE, TRUE, r.connectionPath)])
          ELSE stack' = SetTop(d, [f EXCEPT !.pc = "t4"])
  /\ UNCHANGED <<now, currentNetworkId, currentUserId, timers, connections, peerCache,
                 networkMembers, messageQueue, discoveryRequests, running, wconns, config,
                 sigOpen, storage, routes, offline, net, registryCalls, received, results,
                 teardown, abandoned>>

\* the coordinators of the peer cache, in Map order
Coordinators(d) == SelectSeq(MapValues(peerCache[d]), LAMBDA pi : pi.isCoordinator)

\* queryCoordinators: tier 4 takes its list of coordinators
QueryCoordinators(d) ==
  /\ d \in running /\ stack[d] # << >> /\ Top(d).pc = "t4"
  /\ stack' = SetTop(d, [Top(d) EXCEPT !.pc = "t4n", !.coords = Coordinators(d),
                                        !.tried = Append(@, 4)])
  /\ UNCHANGED <<now, currentNetworkId, currentUserId, timers, connections, peerCache,
                 networkMembers, messageQueue, discoveryRequests, running, wconns, config,
                 sigOpen, storage, routes, offline, net, registryCalls, received, results,
                 teardown, abandoned>>

\* the loop of queryCoordinators: connectToPeer(coordinator.userId) for the next
\* coordinator, or null when none is left
NextCoordinator(d) ==
  /\ d \in running /\ stack[d] # << >> /\ Top(d).pc = "t4n"
  /\ LET f == Top(d)
     IN IF f.coords = << >>
          THEN stack' = SetTop(d, [f EXCEPT !.pc = "t5"])
          ELSE /\ CtpDepth(d) < MaxDepth
               /\ stack' = [stack EXCEPT ![d] =
                     Append([@ EXCEPT ![Len(@)] = [f EXCEPT !.pc = "t4r"]],
                            Frame("connectToPeer", "t1", Head(f.coords).userId, "none", 0))]
  /\ UNCHANGED <<now, currentNetworkId, currentUserId, timers, connections, peerCache,
                 networkMembers, messageQueue, discoveryRequests, running, wconns, config,
                 sigOpen, storage, routes, offline, net, registryCalls, received, results,
                 teardown, abandoned>>

\* queryRegistry up to the call of authAPI.getNetworkPeer: tier 5
QueryRegistry(d) ==
  /\ d \in running /\ stack[d] # << >> /\ Top(d).pc = "t5"
  /\ LET f == [Top(d) EXCEPT !.tried = Append(@, 5)]
     IN IF currentNetworkId[d] = NoNet
          THEN /\ stack' = SetTop(d, [f EXCEPT !.pc = "nf"])
               /\ UNCHANGED registryCalls
          ELSE /\ stack' = SetTop(d, [f EXCEPT !.pc = "t5w"])
               /\ registryCalls' = [registryCalls EXCEPT ![d] =
                     @ \cup {[user |-> f.user, nested |-> CtpDepth(d) > 1]}]
  /\ UNCHANGED <<now, currentNetworkId, currentUserId, timers, connections, peerCache,
                 networkMembers, messageQueue, discoveryRequests, running, wconns, config,
                 sigOpen, storage, routes, offline, net, received, results,
                 teardown, abandoned>>

\* the registry answers: online with a device id, or not (offline, or the call failed)
RegistryResponse(d, online, g) ==
  /\ Idle(d) /\ stack[d] # << >> /\ Top(d).pc = "t5w"
  /\ LET f == Top(d)
     IN stack' = SetTop(d,
          IF online
            THEN [f EXCEPT !.pc = "est",
                    !.info = PeerInfo(f.user, <<f.user, g>>, "s1", now, FALSE, TRUE, "none")]
            ELSE [f EXCEPT !.pc = "nf"])
  /\ UNCHANGED <<now, currentNetworkId, currentUserId, timers, connections, peerCache,
                 networkMembers, messageQueue, discoveryRequests, running, wconns, config,
                 sigOpen, storage, routes, offline, net, registryCalls, received, results,
                 teardown, abandoned>>

\* updatePeerStatus: networkMembers.set
UpdatePeerStatus(d, u, status, ls, path) ==
  networkMembers' = [networkMembers EXCEPT ![d] =
     FnSet(@, u, [status |-> status, lastSeen |-> ls, connectionPath |-> path])]

\* connectToPeer, step 6: not found
NotFound(d) ==
  /\ d \in running /\ stack[d] # << >> /\ Top(d).pc = "nf"
  /\ UpdatePeerStatus(d, Top(d).user, "offline", now, "none")
  /\ stack' = SetTop(d, [Top(d) EXCEPT !.pc = "ret", !.conn = NoPeer])
  /\ UNCHANGED <<now, currentNetworkId, currentUserId, timers, connections, peerCache,
                 messageQueue, discoveryRequests, running, wconns, config,
                 sigOpen, storage, routes, offline, net, registryCalls, received, results,
                 teardown, abandoned>>

(* --------------------- establishConnection / storage ------------------- *)
\* WebRTCService.createConnection up to its first await, called by
\* establishConnection: throws without a config, returns an entry that is
\* already connected, and otherwise sets a new connecting entry in the table
CreateConnection(d) ==
  /\ d \in running /\ stack[d] # << >> /\ Top(d).pc = "est"
  /\ LET f == Top(d)
         p == f.info.peerId
     IN IF ~config[d]
          THEN /\ stack' = SetTop(d, [f EXCEPT !.pc = "ret", !.conn = NoPeer])
               /\ UNCHANGED wconns
          ELSE IF p \in DOMAIN wconns[d] /\ wconns[d][p].state = "connected"
            THEN /\ stack' = SetTop(d, [f EXCEPT !.pc = "reg"])
                 /\ UNCHANGED wconns
            ELSE /\ wconns' = [wconns EXCEPT ![d] =
                       FnSet(@, p, [state |-> "connecting", dc |-> "connecting", init |-> TRUE,
                                    offered |-> FALSE, ice |-> "new",
                                    older |-> p \in DOMAIN wconns[d]])]
                 /\ stack' = SetTop(d, [f EXCEPT !.pc = "estw"])
  /\ UNCHANGED <<now, currentNetworkId, currentUserId, timers, connections, peerCache,
                 networkMembers, messageQueue, discoveryRequests, running, config,
                 sigOpen, storage, routes, offline, net, registryCalls, received, results,
                 teardown, abandoned>>

\* the offer of device d for peer id p, as the signaling server forwards it
Offer(d, p) ==
  IF UserOf(p) \in running /\ p[2] = 0
    THEN {[dst |-> UserOf(p), from |-> DeviceId(d), msg |-> Msg("offer", 0, "none", "none", NoInfo, 0)]}
    ELSE {}

\* createConnection after createOffer: sendSignalingMessage throws when the
\* socket is not open, createConnection then returns null (its entry stays)
SendOffer(d) ==
  /\ Idle(d) /\ stack[d] # << >> /\ Top(d).pc = "estw"
  /\ IF sigOpen[d] = "open"
       THEN /\ net' = net \cup Offer(d, Top(d).info.peerId)
            /\ wconns' = [wconns EXCEPT ![d] =
                  IF Top(d).info.peerId \in DOMAIN @
                    THEN [@ EXCEPT ![Top(d).info.peerId].offered = TRUE] ELSE @]
            /\ stack' = SetTop(d, [Top(d) EXCEPT !.pc = "reg"])
       ELSE /\ stack' = SetTop(d, [Top(d) EXCEPT !.pc = "ret", !.conn = NoPeer])
            /\ UNCHANGED <<net, wconns>>
  /\ UNCHANGED <<now, currentNetworkId, currentUserId, timers, connections, peerCache,
                 networkMembers, messageQueue, discoveryRequests, running, config,
                 sigOpen, storage, routes, offline, registryCalls, received, results,
                 teardown, abandoned>>

\* establishConnection lines 571-586: the connection is registered as
\* connecting, the peer cached and its status set to direct
RegisterConnection(d) ==
  /\ d \in running /\ stack[d] # << >> /\ Top(d).pc = "reg"
  /\ LET f == Top(d)
         p == f.info.peerId
     IN /\ connections' = [connections EXCEPT ![d] =
               MapSet(@, p, [state |-> "connecting", connectedAt |-> now])]
        /\ peerCache' = [peerCache EXCEPT ![d] = MapSet(@, p, f.info)]
        /\ UpdatePeerStatus(d, f.info.userId, "direct", now, "none")
        /\ stack' = SetTop(d, [f EXCEPT !.pc = "store"])
  /\ UNCHANGED <<now, currentNetworkId, currentUserId, timers,
                 messageQueue, discoveryRequests, running, wconns, config,
                 sigOpen, storage, routes, offline, net, registryCalls, received, results,
                 teardown, abandoned>>

\* peerStorage.storePeerRoute: INSERT OR REPLACE on UNIQUE(user_id, network_id)
\* (the AsyncStorage fallback replaces the entry of the same userId)
StoredRoute(pi) ==
  [peerId |-> pi.peerId, signalAddress |-> pi.signalAddress, lastSeen |-> pi.lastSeen,
   connectionPath |-> pi.connectionPath]

\* PeerManager.storePeerRoute: nothing without a network id; an error of the
\* storage (database not initialized) is caught and logged
StorePeerRoute(rt, d, pi) ==
  IF currentNetworkId[d] # NoNet /\ storage[d] # "closed"
    THEN FnSet(rt, pi.userId, StoredRoute(pi))
    ELSE rt

\* establishConnection after await storePeerRoute: returns the connection
StoreRouteAndReturn(d) ==
  /\ Idle(d) /\ stack[d] # << >> /\ Top(d).pc = "store"
  /\ routes' = [routes EXCEPT ![d] = StorePeerRoute(@, d, Top(d).info)]
  /\ stack' = SetTop(d, [Top(d) EXCEPT !.pc = "ret", !.conn = Top(d).info.peerId])
  /\ UNCHANGED <<now, currentNetworkId, currentUserId, timers, connections, peerCache,
                 networkMembers, messageQueue, discoveryRequests, running, wconns, config,
                 sigOpen, storage, offline, net, registryCalls, received, results,
                 teardown, abandoned>>

\* connectToPeer returns to the caller of the public API
ReturnToCaller(d) ==
  /\ d \in running /\ Len(stack[d]) = 1 /\ Top(d).pc = "ret"
  /\ stack' = [stack EXCEPT ![d] = << >>]
  /\ UNCHANGED <<now, currentNetworkId, currentUserId, timers, connections, peerCache,
                 networkMembers, messageQueue, discoveryRequests, running, wconns, config,
                 sigOpen, storage, routes, offline, net, registryCalls, received, results,
                 teardown, abandoned>>

\* queryCoordinators lines 500-529: with a connection to the coordinator a
\* PEER_QUERY is sent to it and its promise is the result of the whole tier;
\* without one the loop goes on
ReturnToCoordinators(d) ==
  /\ d \in running /\ Len(stack[d]) > 1 /\ Top(d).pc = "ret"
  /\ stack[d][Len(stack[d]) - 1].pc = "t4r"
  /\ LET c == stack[d][Len(stack[d]) - 1]
         rest == SubSeq(stack[d], 1, Len(stack[d]) - 2)
     IN IF Top(d).conn # NoPeer
          THEN /\ FreeReqs(d) # {}
               /\ LET r == NewReq(d)
                  IN /\ discoveryRequests' = [discoveryRequests EXCEPT ![d] = @ \cup {r}]
                     /\ net' = net \cup Wire(d, Head(c.coords).peerId,
                                             Msg("PEER_QUERY", r, c.user, "none", NoInfo, 0))
                     /\ stack' = [stack EXCEPT ![d] =
                                    Append(rest, [c EXCEPT !.pc = "t4w", !.req = r,
                                       !.asked = {q \in {Head(c.coords).peerId} : WCanSend(d, q)}])]
          ELSE /\ stack' = [stack EXCEPT ![d] =
                              Append(rest, [c EXCEPT !.pc = "t4n", !.coords = Tail(@)])]
               /\ UNCHANGED <<discoveryRequests, net>>
  /\ UNCHANGED <<now, currentNetworkId, currentUserId, timers, connections, peerCache,
                 networkMembers, messageQueue, running, wconns, config,
                 sigOpen, storage, routes, offline, registryCalls, received, results,
                 teardown, abandoned>>

(* ----------------------- PeerManager: sendMessage ---------------------- *)
\* getActiveConnections of the PeerManager: its entries in state connected
\* findRelayForPeer: the first of them whose cached PeerInfo has canRelay;
\* the target user is not looked at
FindRelayForPeer(d) ==
  LET m == connections[d]
      hits == {i \in 1 .. Len(m) :
                 /\ m[i].v.state = "connected"
                 /\ MapHas(peerCache[d], m[i].k)
                 /\ MapGet(peerCache[d], m[i].k).canRelay}
  IN IF hits = {} THEN NoPeer
     ELSE m[CHOOSE i \in hits : \A j \in hits : i <= j].k

\* queueMessage: push {...message, queuedAt: Date.now()} on the user's array
QueueMessage(q, u, body, t) ==
  FnSet(q, u, Append(IF u \in DOMAIN q THEN q[u] ELSE << >>,
                     [body |-> body, queuedAt |-> t]))

\* storeMessageWithCoordinator: STORE_MESSAGE to the first coordinator whose
\* WebRTC entry is connected
StoreMessageWithCoordinator(d, u, body) ==
  LET cs == SelectSeq(Coordinators(d),
              LAMBDA pi : pi.peerId \in DOMAIN wconns[d]
                          /\ wconns[d][pi.peerId].state = "connected")
  IN IF cs = << >> THEN {}
     ELSE Wire(d, cs[1].peerId, Msg("STORE_MESSAGE", 0, u, body, NoInfo, 0))

\* the number of entries of the in-memory message queue
RECURSIVE QueueSize(_, _)
QueueSize(q, us) ==
  IF us = {} THEN 0
  ELSE LET u == CHOOSE x \in us : TRUE
       IN Len(q[u]) + QueueSize(q, us \ {u})

\* sendMessage(userId, message) is called: it calls connectToPeer
CallSendMessage(d, u, body, hops) ==
  stack' = [stack EXCEPT ![d] =
              << [Frame("sendMessage", "s1", u, body, hops) EXCEPT !.links = Links],
                 Frame("connectToPeer", "t1", u, "none", 0) >>]

\* the offline table holds a row for the user and the payload
HasRow(rows, u, body) ==
  \E i \in 1 .. Len(rows) : rows[i].toUserId = u /\ rows[i].content = body

\* history: what a call of sendMessage returned (ok), how the payload left
\* (how), whether connectToPeer had found the user (found), whether the offline
\* table held a row for it at the return (row), and who was connected to whom
\* at the call and at the return
Result(c, ok, how, found, row) ==
  [to |-> c.user, body |-> c.body, ok |-> ok, how |-> how, found |-> found,
   row |-> row, links0 |-> c.links, links |-> Links]

\* sendMessage lines 322-347, after connectToPeer returned: the direct send,
\* the relay through the first relay-capable connection, and the queue
ReturnToSendMessage(d) ==
  /\ d \in running /\ Len(stack[d]) > 1 /\ Top(d).pc = "ret"
  /\ stack[d][Len(stack[d]) - 1].pc = "s1"
  /\ LET c == stack[d][Len(stack[d]) - 1]
         v == Top(d).conn
         connected == /\ v # NoPeer
                      /\ MapHas(connections[d], v)
                      /\ MapGet(connections[d], v).state = "connected"
         relay == FindRelayForPeer(d)
         callers == SubSeq(stack[d], 1, Len(stack[d]) - 2)
     IN IF connected /\ WCanSend(d, v)
          THEN /\ net' = net \cup Wire(d, v, Msg("MSG", 0, c.user, c.body, NoInfo, c.hops))
               /\ results' = [results EXCEPT ![d] =
                     @ \cup {Result(c, TRUE, "direct", TRUE, HasRow(offline[d], c.user, c.body))}]
               /\ stack' = [stack EXCEPT ![d] = callers]
               /\ UNCHANGED messageQueue
          ELSE IF relay # NoPeer /\ WCanSend(d, relay)
            THEN /\ net' = net \cup Wire(d, relay,
                                         Msg("RELAY", 0, c.user, c.body, NoInfo, c.hops + 1))
                 /\ results' = [results EXCEPT ![d] =
                       @ \cup {Result(c, TRUE, "relay", v # NoPeer,
                                       HasRow(offline[d], c.user, c.body))}]
                 /\ stack' = [stack EXCEPT ![d] = callers]
                 /\ UNCHANGED messageQueue
            ELSE /\ messageQueue' = [messageQueue EXCEPT ![d] = QueueMessage(@, c.user, c.body, now)]
                 /\ net' = net \cup StoreMessageWithCoordinator(d, c.user, c.body)
                 /\ stack' = [stack EXCEPT ![d] = Append(callers, [c EXCEPT !.pc = "s2", !.conn = v])]
                 /\ UNCHANGED results
  /\ UNCHANGED <<now, currentNetworkId, currentUserId, timers, connections, peerCache,
                 networkMembers, discoveryRequests, running, wconns, config,
                 sigOpen, storage, routes, offline, registryCalls, received,
                 teardown, abandoned>>

\* storeOfflineMessageLocally: nothing without a network id; an error of
\* peerStorage.storeOfflineMessage (database not initialized) is caught
StoreOfflineMessageLocally(rows, d, u, body) ==
  IF currentNetworkId[d] # NoNet /\ storage[d] # "closed"
    THEN Append(rows, [toUserId |-> u, content |-> body, queuedAt |-> now])
    ELSE rows

\* sendMessage lines 347-348: after await storeOfflineMessageLocally it returns false
StoreAndReturnFalse(d) ==
  /\ Idle(d) /\ stack[d] # << >> /\ Top(d).pc = "s2"
  /\ LET c == Top(d)
         rows == StoreOfflineMessageLocally(offline[d], d, c.user, c.body)
     IN /\ offline' = [offline EXCEPT ![d] = rows]
        /\ results' = [results EXCEPT ![d] =
              @ \cup {Result(c, FALSE, "queued", c.conn # NoPeer, HasRow(rows, c.user, c.body))}]
  /\ stack' = [stack EXCEPT ![d] = SubSeq(@, 1, Len(@) - 1)]
  /\ UNCHANGED <<now, currentNetworkId, currentUserId, timers, connections, peerCache,
                 networkMembers, messageQueue, discoveryRequests, running, wconns, config,
                 sigOpen, storage, routes, net, registryCalls, received,
                 teardown, abandoned>>

\* flushMessageQueue(userId) up to its first await: nothing without a queued
\* message, otherwise the loop over the user's array begins
FlushMessageQueue(d, u) ==
  /\ Idle(d) /\ stack[d] = << >>
  /\ u \in DOMAIN messageQueue[d] /\ messageQueue[d][u] # << >>
  /\ stack' = [stack EXCEPT ![d] =
        << [Frame("flushMessageQueue", "f1", u, "none", 0)
              EXCEPT !.len0 = Len(messageQueue[d][u])] >>]
  /\ UNCHANGED <<now, currentNetworkId, currentUserId, timers, connections, peerCache,
                 networkMembers, messageQueue, discoveryRequests, running, wconns, config,
                 sigOpen, storage, routes, offline, net, registryCalls, received, results,
                 teardown, abandoned>>

\* the for...of loop of flushMessageQueue: the array iterator reads the length
\* the array has now, so it also reaches what queueMessage pushed meanwhile;
\* each message is handed to sendMessage, and after the last the entry is deleted
FlushNext(d) ==
  /\ d \in running /\ stack[d] # << >> /\ Top(d).pc = "f1"
  /\ LET f == Top(d)
         queue == IF f.user \in DOMAIN messageQueue[d] THEN messageQueue[d][f.user] ELSE << >>
     IN IF f.idx < Len(queue)
          THEN /\ f.idx < MaxFlush
               /\ stack' = [stack EXCEPT ![d] =
                     << [f EXCEPT !.idx = @ + 1, !.pc = "f2"],
                        [Frame("sendMessage", "s1", f.user, queue[f.idx + 1].body, 0)
                           EXCEPT !.links = Links],
                        Frame("connectToPeer", "t1", f.user, "none", 0) >>]
               /\ UNCHANGED messageQueue
          ELSE /\ stack' = [stack EXCEPT ![d] = << >>]
               /\ messageQueue' = [messageQueue EXCEPT ![d] = FnDel(@, f.user)]
  /\ UNCHANGED <<now, currentNetworkId, currentUserId, timers, connections, peerCache,
                 networkMembers, discoveryRequests, running, wconns, config,
                 sigOpen, storage, routes, offline, net, registryCalls, received, results,
                 teardown, abandoned>>

\* await this.sendMessage(...) in the loop has returned: the loop goes on
FlushResumes(d) ==
  /\ d \in running /\ Len(stack[d]) = 1 /\ Top(d).pc = "f2"
  /\ stack' = SetTop(d, [Top(d) EXCEPT !.pc = "f1"])
  /\ UNCHANGED <<now, currentNetworkId, currentUserId, timers, connections, peerCache,
                 networkMembers, messageQueue, discoveryRequests, running, wconns, config,
                 sigOpen, storage, routes, offline, net, registryCalls, received, results,
                 teardown, abandoned>>

(* ------------------------------ public API ----------------------------- *)
\* the presentation layer calls connectToPeer(userId)
ConnectToPeer(d, u) ==
  /\ Idle(d) /\ stack[d] = << >>
  /\ stack' = [stack EXCEPT ![d] = << Frame("connectToPeer", "t1", u, "none", 0) >>]
  /\ UNCHANGED <<now, currentNetworkId, currentUserId, timers, connections, peerCache,
                 networkMembers, messageQueue, discoveryRequests, running, wconns, config,
                 sigOpen, storage, routes, offline, net, registryCalls, received, results,
                 teardown, abandoned>>

\* sendMessage(userId, message) is called from outside
SendMessage(d, u, body) ==
  /\ Idle(d) /\ stack[d] = << >>
  /\ QueueSize(messageQueue[d], DOMAIN messageQueue[d]) < MaxSends
  /\ Len(offline[d]) < MaxSends /\ Cardinality(results[d]) < MaxSends
  /\ CallSendMessage(d, u, body, 0)
  /\ UNCHANGED <<now, currentNetworkId, currentUserId, timers, connections, peerCache,
                 networkMembers, messageQueue, discoveryRequests, running, wconns, config,
                 sigOpen, storage, routes, offline, net, registryCalls, received, results,
                 teardown, abandoned>>

(* ------------------- WebRTC events and their handler ------------------- *)
\* handleConnectionStateChange: nothing without an entry of the PeerManager's
\* table; connected marks the entry, disconnected deletes it
HandleConnectionStateChange(m, p, state) ==
  IF ~MapHas(m, p) THEN m
  ELSE IF state = "connected"
    THEN MapSet(m, p, [MapGet(m, p) EXCEPT !.state = "connected"])
    ELSE IF state = "disconnected" THEN MapDel(m, p) ELSE m

\* a peer connection can come up only with a peer id that a device registered
\* for signaling, and with a device whose code runs only if it holds the other end
Reachable(d, p) ==
  /\ p[2] = 0
  /\ p \in DOMAIN wconns[d] /\ wconns[d][p].offered
  /\ UserOf(p) \in running => DeviceId(d) \in DOMAIN wconns[UserOf(p)]

\* oniceconnectionstatechange with connected / completed
IceConnected(d, p) ==
  /\ Idle(d) /\ p \in DOMAIN wconns[d] /\ Reachable(d, p)
  /\ wconns[d][p].ice = "new"
  /\ wconns' = [wconns EXCEPT ![d][p].state = "connected", ![d][p].ice = "connected"]
  /\ connections' = [connections EXCEPT ![d] = HandleConnectionStateChange(@, p, "connected")]
  /\ UNCHANGED <<now, currentNetworkId, currentUserId, timers, peerCache, networkMembers,
                 messageQueue, discoveryRequests, stack, running, config, sigOpen,
                 storage, routes, offline, net, registryCalls, received, results,
                 teardown, abandoned>>

\* dataChannel.onopen
DataChannelOpen(d, p) ==
  /\ Idle(d) /\ p \in DOMAIN wconns[d] /\ Reachable(d, p)
  /\ wconns[d][p].dc = "connecting"
  /\ wconns' = [wconns EXCEPT ![d][p].state = "connected", ![d][p].dc = "open"]
  /\ connections' = [connections EXCEPT ![d] = HandleConnectionStateChange(@, p, "connected")]
  /\ UNCHANGED <<now, currentNetworkId, currentUserId, timers, peerCache, networkMembers,
                 messageQueue, discoveryRequests, stack, running, config, sigOpen,
                 storage, routes, offline, net, registryCalls, received, results,
                 teardown, abandoned>>

\* oniceconnectionstatechange with failed / disconnected: the handler is told
\* disconnected and the entry leaves the WebRTC table
IceDisconnected(d, p) ==
  /\ Idle(d) /\ p \in DOMAIN wconns[d]
  /\ wconns' = [wconns EXCEPT ![d] = FnDel(@, p)]
  /\ connections' = [connections EXCEPT ![d] = HandleConnectionStateChange(@, p, "disconnected")]
  /\ UNCHANGED <<now, currentNetworkId, currentUserId, timers, peerCache, networkMembers,
                 messageQueue, discoveryRequests, stack, running, config, sigOpen,
                 storage, routes, offline, net, registryCalls, received, results,
                 teardown, abandoned>>

\* oniceconnectionstatechange with failed / disconnected of a context that a
\* newer connection to p superseded: its handler deletes by peerId, so the
\* entry it removes is the newer one, and it tells the PeerManager disconnected
StaleIceFailed(d, p) ==
  /\ Idle(d) /\ p \in DOMAIN wconns[d] /\ wconns[d][p].older
  /\ wconns' = [wconns EXCEPT ![d] = FnDel(@, p)]
  /\ connections' = [connections EXCEPT ![d] = HandleConnectionStateChange(@, p, "disconnected")]
  /\ UNCHANGED <<now, currentNetworkId, currentUserId, timers, peerCache, networkMembers,
                 messageQueue, discoveryRequests, stack, running, config, sigOpen,
                 storage, routes, offline, net, registryCalls, received, results,
                 teardown, abandoned>>

\* dataChannel.onopen of a superseded context: it marks its own connection
\* object, which the table no longer holds, and tells the PeerManager connected
StaleChannelOpen(d, p) ==
  /\ Idle(d) /\ p \in DOMAIN wconns[d] /\ wconns[d][p].older
  /\ connections' = [connections EXCEPT ![d] = HandleConnectionStateChange(@, p, "connected")]
  /\ UNCHANGED <<now, currentNetworkId, currentUserId, timers, peerCache, networkMembers,
                 messageQueue, discoveryRequests, stack, running, wconns, config, sigOpen,
                 storage, routes, offline, net, registryCalls, received, results,
                 teardown, abandoned>>

\* dataChannel.onclose: the WebRTC entry stays, in state closed
DataChannelClose(d, p) ==
  /\ Idle(d) /\ p \in DOMAIN wconns[d] /\ wconns[d][p].dc = "open"
  /\ wconns' = [wconns EXCEPT ![d][p].state = "closed", ![d][p].dc = "closed"]
  /\ connections' = [connections EXCEPT ![d] = HandleConnectionStateChange(@, p, "disconnected")]
  /\ UNCHANGED <<now, currentNetworkId, currentUserId, timers, peerCache, networkMembers,
                 messageQueue, discoveryRequests, stack, running, config, sigOpen,
                 storage, routes, offline, net, registryCalls, received, results,
                 teardown, abandoned>>

\* handleOffer up to its first await: a connecting entry for the sender, which
\* the PeerManager's table never learns of
HandleOffer(d) ==
  \E x \in net :
    /\ x.dst = d /\ x.msg.type = "offer" /\ Idle(d)
    /\ net' = net \ {x}
    /\ IF config[d]
         THEN wconns' = [wconns EXCEPT ![d] =
                FnSet(@, x.from, [state |-> "connecting", dc |-> "connecting", init |-> FALSE,
                             offered |-> TRUE, ice |-> "new",
                             older |-> x.from \in DOMAIN wconns[d]])]
         ELSE UNCHANGED wconns
    /\ UNCHANGED <<now, currentNetworkId, currentUserId, timers, connections, peerCache,
                   networkMembers, messageQueue, discoveryRequests, stack, running, config,
                   sigOpen, storage, routes, offline, registryCalls, received, results,
                   teardown, abandoned>>

(* --------------------- PeerManager: message handlers ------------------- *)
\* the PRESENCE_ANNOUNCEMENT a device sends: its own record, up to 10 peers of
\* its cache and its member list
Presence(u, p, ts, known, members) ==
  [Msg("PRESENCE_ANNOUNCEMENT", 0, u, "none",
       PeerInfo(u, p, "s1", ts, FALSE, TRUE, "none"), 0)
   EXCEPT !.networkId = NetId, !.known = known, !.members = members]

\* handlePresenceAnnouncement lines 708-733: a gossiped peer is skipped when it
\* is the device's own user or its peerId is a key of the cache; any other is
\* cached and stored as discovered via the sender
RECURSIVE Gossip(_, _, _, _, _)
Gossip(cr, d, sender, known, i) ==
  IF i > Len(known) THEN cr
  ELSE LET g == known[i]
       IN IF g.userId = currentUserId[d] \/ MapHas(cr.cache, g.peerId)
            THEN Gossip(cr, d, sender, known, i + 1)
            ELSE LET pi == PeerInfo(g.userId, g.peerId, g.signalAddress, g.lastSeen,
                                    g.isCoordinator, g.canRelay, Via(sender))
                 IN Gossip([cache |-> MapSet(cr.cache, g.peerId, pi),
                            routes |-> StorePeerRoute(cr.routes, d, pi)],
                           d, sender, known, i + 1)

\* the merge without the comparison of lastSeen: every sample is taken
RECURSIVE MergeMembersAlways(_, _, _, _)
MergeMembersAlways(nm, sender, members, i) ==
  IF i > Len(members) THEN nm
  ELSE LET m == members[i]
       IN MergeMembersAlways(
            FnSet(nm, m.userId,
                  [status |-> m.status, lastSeen |-> m.lastSeen,
                   connectionPath |-> IF m.status = "direct" THEN "direct" ELSE Via(sender)]),
            sender, members, i + 1)

\* handlePresenceAnnouncement lines 737-748: a member's status is taken when
\* none is held or the held one is strictly older
RECURSIVE MergeMembers(_, _, _, _)
MergeMembers(nm, sender, members, i) ==
  IF i > Len(members) THEN nm
  ELSE LET m == members[i]
           taken == m.userId \notin DOMAIN nm \/ nm[m.userId].lastSeen < m.lastSeen
       IN MergeMembers(
            IF taken
              THEN FnSet(nm, m.userId,
                         [status |-> m.status, lastSeen |-> m.lastSeen,
                          connectionPath |-> IF m.status = "direct" THEN "direct" ELSE Via(sender)])
              ELSE nm,
            sender, members, i + 1)

\* handlePresenceAnnouncement
HandlePresenceAnnouncement(d, m) ==
  IF m.networkId # currentNetworkId[d]
    THEN UNCHANGED <<peerCache, networkMembers, routes>>
    ELSE LET pi == m.info
             cr == Gossip([cache |-> MapSet(peerCache[d], pi.peerId, pi),
                           routes |-> StorePeerRoute(routes[d], d, pi)],
                          d, m.user, m.known, 1)
             nm == FnSet(networkMembers[d], m.user,
                         [status |-> "direct", lastSeen |-> pi.lastSeen,
                          connectionPath |-> "direct"])
         IN /\ peerCache' = [peerCache EXCEPT ![d] = cr.cache]
            /\ routes' = [routes EXCEPT ![d] = cr.routes]
            /\ networkMembers' = [networkMembers EXCEPT ![d] =
                                    MergeMembers(nm, m.user, m.members, 1)]

\* handlePeerQuery: the first cached peer of the user that is looked for is
\* answered with PEER_FOUND
HandlePeerQuery(d, m, from) ==
  LET hits == SelectSeq(MapValues(peerCache[d]), LAMBDA pi : pi.userId = m.user)
  IN IF hits = << >> THEN {}
     ELSE Wire(d, from, Msg("PEER_FOUND", m.requestId, m.user, "none", hits[1], 0))

\* handleNetworkState: an online member that is not known yet is entered as relay
RECURSIVE HandleNetworkState(_, _, _)
HandleNetworkState(nm, members, i) ==
  IF i > Len(members) THEN nm
  ELSE HandleNetworkState(
         IF members[i].userId \in DOMAIN nm THEN nm
         ELSE FnSet(nm, members[i].userId,
                    [status |-> "relay", lastSeen |-> members[i].lastSeen,
                     connectionPath |-> "none"]),
         members, i + 1)

\* handleP2PMessage on a message m from peer id `from`; g is the clock reading
\* that handlePeerFound puts in the peer id it makes up
HandleP2PMessage(d, m, from, g) ==
  CASE m.type = "PEER_QUERY" ->
         /\ net' = (net \ {[dst |-> d, from |-> from, msg |-> m]}) \cup HandlePeerQuery(d, m, from)
         /\ UNCHANGED <<peerCache, networkMembers, routes, discoveryRequests, stack, received>>
    [] m.type = "PEER_FOUND" ->
         /\ HandlePeerFound(d, m, g)
         /\ net' = net \ {[dst |-> d, from |-> from, msg |-> m]}
         /\ UNCHANGED <<peerCache, networkMembers, routes, received>>
    [] m.type = "NETWORK_STATE" ->
         /\ networkMembers' = [networkMembers EXCEPT ![d] = HandleNetworkState(@, m.members, 1)]
         /\ net' = net \ {[dst |-> d, from |-> from, msg |-> m]}
         /\ UNCHANGED <<peerCache, routes, discoveryRequests, stack, received>>
    [] m.type = "STORE_MESSAGE" ->
         /\ received' = IF m.user = currentUserId[d]
                          THEN [received EXCEPT ![d] = @ \cup {[body |-> m.body, hops |-> m.hops, how |-> "stored"]}]
                          ELSE received
         /\ net' = net \ {[dst |-> d, from |-> from, msg |-> m]}
         /\ UNCHANGED <<peerCache, networkMembers, routes, discoveryRequests, stack>>
    [] m.type = "RELAY" ->
         /\ net' = net \ {[dst |-> d, from |-> from, msg |-> m]}
         /\ IF m.user = currentUserId[d]
              THEN /\ received' = [received EXCEPT ![d] =
                                     @ \cup {[body |-> m.body, hops |-> m.hops, how |-> "relayed"]}]
                   /\ UNCHANGED stack
              ELSE /\ stack[d] = << >> /\ m.hops < MaxHops
                   /\ CallSendMessage(d, m.user, m.body, m.hops)
                   /\ UNCHANGED received
         /\ UNCHANGED <<peerCache, networkMembers, routes, discoveryRequests>>
    [] m.type = "PRESENCE_ANNOUNCEMENT" ->
         /\ HandlePresenceAnnouncement(d, m)
         /\ net' = net \ {[dst |-> d, from |-> from, msg |-> m]}
         /\ UNCHANGED <<discoveryRequests, stack, received>>
    [] OTHER ->
         /\ received' = [received EXCEPT ![d] =
                           @ \cup {[body |-> m.body, hops |-> m.hops, how |-> "direct"]}]
         /\ net' = net \ {[dst |-> d, from |-> from, msg |-> m]}
         /\ UNCHANGED <<peerCache, networkMembers, routes, discoveryRequests, stack>>

\* dataChannel.onmessage: a message sent by a device whose code runs arrives
\* on the open channel of the sender, or is lost with the channel
Deliver(d) ==
  \E x \in net :
    /\ x.dst = d /\ x.msg.type # "offer" /\ Idle(d)
    /\ IF WCanSend(d, x.from)
         THEN \E g \in 1 .. MaxGen : HandleP2PMessage(d, x.msg, x.from, g)
         ELSE /\ net' = net \ {x}
              /\ UNCHANGED <<peerCache, networkMembers, routes, discoveryRequests, stack, received>>
    /\ UNCHANGED <<now, currentNetworkId, currentUserId, timers, connections,
                   messageQueue, running, wconns, config, sigOpen, storage,
                   offline, registryCalls, results, teardown, abandoned>>

(* ------------------ initialize, destroy and the timers ----------------- *)
\* loadRegistryPeers: every peer of the registry's list but the device's own
\* user is cached under its deviceId, entered as offline and stored
RECURSIVE LoadRegistryPeers(_, _, _, _)
LoadRegistryPeers(st, d, peers, i) ==
  IF i > Len(peers) THEN st
  ELSE IF peers[i].userId = d THEN LoadRegistryPeers(st, d, peers, i + 1)
  ELSE LoadRegistryPeers(
         [cache |-> MapSet(st.cache, peers[i].peerId, peers[i]),
          members |-> FnSet(st.members, peers[i].userId,
                            [status |-> "offline", lastSeen |-> peers[i].lastSeen,
                             connectionPath |-> "none"]),
          routes |-> IF storage[d] # "closed"
                       THEN FnSet(st.routes, peers[i].userId, StoredRoute(peers[i]))
                       ELSE st.routes],
         d, peers, i + 1)

\* initialize(networkId, userId, token): the ids are set, the WebRTC service
\* gets its config and tries the signaling server (open tells whether it
\* answered), the registry's peers are loaded and the presence timers started
Initialize(d, peers, open) ==
  /\ Idle(d) /\ stack[d] = << >>
  /\ currentNetworkId' = [currentNetworkId EXCEPT ![d] = NetId]
  /\ currentUserId' = [currentUserId EXCEPT ![d] = d]
  /\ config' = [config EXCEPT ![d] = TRUE]
  /\ sigOpen' = [sigOpen EXCEPT ![d] = IF open THEN "open" ELSE "none"]
  /\ LET st == LoadRegistryPeers([cache |-> peerCache[d], members |-> networkMembers[d],
                                  routes |-> routes[d]], d, peers, 1)
     IN /\ peerCache' = [peerCache EXCEPT ![d] = st.cache]
        /\ networkMembers' = [networkMembers EXCEPT ![d] = st.members]
        /\ routes' = [routes EXCEPT ![d] = st.routes]
  /\ timers' = [timers EXCEPT ![d].p2pPresence = TRUE, ![d].registryPresence = TRUE]
  /\ UNCHANGED <<now, connections, messageQueue, discoveryRequests, stack, running,
                 wconns, storage, offline, net, registryCalls, received, results,
                 teardown, abandoned>>

\* Set as a sequence, in some order
RECURSIVE SetToSeq(_)
SetToSeq(S) ==
  IF S = {} THEN << >>
  ELSE LET x == CHOOSE y \in S : TRUE IN <<x>> \o SetToSeq(S \ {x})

\* one step of destroy(), as the ordered log of a teardown records it
Step(name, peer, live) == [step |-> name, peer |-> peer, live |-> live]

\* a connection of the WebRTC service that is neither closed nor failed
Live(d, p) == p \in DOMAIN wconns[d] /\ wconns[d][p].state \notin {"closed", "failed"}

\* destroy() lines 1154-1160: closeConnection for every entry of the
\* PeerManager's table, in Map order; it closes what the WebRTC service holds
ClosedByManager(d) ==
  SelectSeq(MapKeys2Seq(connections[d]), LAMBDA p : p \in DOMAIN wconns[d])

\* WebRTCService.destroy: the connections the service still holds after that
ClosedByService(d) ==
  SetToSeq({p \in DOMAIN wconns[d] : ~MapHas(connections[d], p)})

CloseSteps(d, ps) == [i \in 1 .. Len(ps) |-> Step("close", ps[i], Live(d, ps[i]))]

\* the steps of destroy() in the order of its statements: the timers, the
\* connections of the PeerManager's table, WebRTCService.destroy (the signaling
\* socket, then the connections left in the service), the discovery requests,
\* the caches, and peerStorage.close
TeardownSteps(d) ==
  <<Step("timers", NoPeer, FALSE)>>
  \o CloseSteps(d, ClosedByManager(d))
  \o (IF sigOpen[d] = "open" THEN <<Step("signaling", NoPeer, FALSE)>> ELSE << >>)
  \o CloseSteps(d, ClosedByService(d))
  \o <<Step("requests", NoPeer, FALSE), Step("caches", NoPeer, FALSE),
       Step("storage", NoPeer, FALSE)>>

\* destroy(): timers stopped, connections closed, pending discovery requests
\* dropped without being resolved, caches and queue cleared, ids reset; the
\* cleanup of stale data tests the network id just reset and never runs; the
\* SQLite storage is closed (close() of the AsyncStorage fallback does nothing).
\* fail names the statement that throws: none, the first close of a connection
\* of the PeerManager's table ("close"), or the first close of a connection
\* left in the WebRTC service ("service"); nothing outside the last two
\* statements is in a try block, so destroy() ends there
DestroyWith(d, fail) ==
  /\ Idle(d)
  /\ timers' = [timers EXCEPT ![d] = [heartbeat |-> FALSE, p2pPresence |-> FALSE,
                                      registryPresence |-> FALSE]]
  /\ CASE fail = "close" ->
            /\ ClosedByManager(d) # << >>
            /\ teardown' = [teardown EXCEPT ![d] = <<Step("timers", NoPeer, FALSE)>>]
            /\ UNCHANGED <<connections, wconns, sigOpen, discoveryRequests, stack, peerCache,
                           networkMembers, messageQueue, currentNetworkId, currentUserId,
                           storage, abandoned>>
       [] fail = "service" ->
            /\ ClosedByService(d) # << >>
            /\ teardown' = [teardown EXCEPT ![d] =
                  <<Step("timers", NoPeer, FALSE)>> \o CloseSteps(d, ClosedByManager(d))
                  \o (IF sigOpen[d] = "open" THEN <<Step("signaling", NoPeer, FALSE)>> ELSE << >>)]
            /\ connections' = [connections EXCEPT ![d] = << >>]
            /\ wconns' = [wconns EXCEPT ![d] =
                  [p \in {q \in DOMAIN @ : ~MapHas(connections[d], q)} |-> @[p]]]
            /\ sigOpen' = [sigOpen EXCEPT ![d] = IF @ = "open" THEN "closed" ELSE @]
            /\ UNCHANGED <<discoveryRequests, stack, peerCache, networkMembers, messageQueue,
                           currentNetworkId, currentUserId, storage, abandoned>>
       [] OTHER ->
            /\ teardown' = [teardown EXCEPT ![d] = TeardownSteps(d)]
            /\ connections' = [connections EXCEPT ![d] = << >>]
            /\ wconns' = [wconns EXCEPT ![d] = EmptyFn]
            /\ sigOpen' = [sigOpen EXCEPT ![d] = IF @ = "open" THEN "closed" ELSE @]
            /\ discoveryRequests' = [discoveryRequests EXCEPT ![d] = {}]
            /\ stack' = [stack EXCEPT ![d] =
                           IF @ # << >> /\ Top(d).pc \in {"t2", "t4w"} THEN << >> ELSE @]
            /\ abandoned' = [abandoned EXCEPT ![d] =
                  IF stack[d] # << >> /\ Top(d).pc \in {"t2", "t4w"}
                    THEN @ \cup {[fn |-> stack[d][1].fn, user |-> stack[d][1].user]}
                    ELSE @]
            /\ peerCache' = [peerCache EXCEPT ![d] = << >>]
            /\ networkMembers' = [networkMembers EXCEPT ![d] = EmptyFn]
            /\ messageQueue' = [messageQueue EXCEPT ![d] = EmptyFn]
            /\ currentNetworkId' = [currentNetworkId EXCEPT ![d] = NoNet]
            /\ currentUserId' = [currentUserId EXCEPT ![d] = "none"]
            /\ storage' = [storage EXCEPT ![d] = IF @ = "sqlite" THEN "closed" ELSE @]
  /\ UNCHANGED <<now, running, config, routes, offline, net, registryCalls, received, results>>

\* destroy() when no statement of it throws
Destroy(d) == DestroyWith(d, "none")

\* cleanupStaleConnections: an entry that is failed, or older than the
\* threshold and not connected, is deleted and its WebRTC connection closed
StaleThreshold == 1
Stale(c) ==
  c.state = "failed" \/ (now - c.connectedAt > StaleThreshold /\ c.state # "connected")

\* the heartbeat interval: broadcastNetworkState and cleanupStaleConnections
Heartbeat(d) ==
  /\ Idle(d) /\ timers[d].heartbeat
  /\ LET online == {u \in DOMAIN networkMembers[d] : networkMembers[d][u].status # "offline"}
         mem == SetToSeq({[userId |-> u, status |-> "online", lastSeen |-> now] : u \in online})
     IN net' = net \cup Broadcast(d, [Msg("NETWORK_STATE", 0, "none", "none", NoInfo, 0)
                                       EXCEPT !.members = mem])
  /\ LET gone == {p \in MapKeys(connections[d]) : Stale(MapGet(connections[d], p))}
     IN /\ connections' = [connections EXCEPT ![d] = SelectSeq(@, LAMBDA e : e.k \notin gone)]
        /\ wconns' = [wconns EXCEPT ![d] = [p \in (DOMAIN @) \ gone |-> @[p]]]
  /\ UNCHANGED <<now, currentNetworkId, currentUserId, timers, peerCache, networkMembers,
                 messageQueue, discoveryRequests, stack, running, config, sigOpen,
                 storage, routes, offline, registryCalls, received, results,
                 teardown, abandoned>>

\* the P2P presence interval: broadcastPresenceToP2P, with a peer id made up
\* from the clock (g)
BroadcastPresenceToP2P(d, g) ==
  /\ Idle(d) /\ timers[d].p2pPresence
  /\ IF currentUserId[d] = "none" \/ currentNetworkId[d] = NoNet
       THEN UNCHANGED net
       ELSE LET known == SelectSeq(MapValues(peerCache[d]), LAMBDA pi : pi.userId # currentUserId[d])
                mem == SetToSeq({[userId |-> u, status |-> networkMembers[d][u].status,
                                  lastSeen |-> networkMembers[d][u].lastSeen] :
                                 u \in DOMAIN networkMembers[d]})
            IN net' = net \cup Broadcast(d, Presence(d, <<d, g>>, now,
                                   SubSeq(known, 1, IF Len(known) < 10 THEN Len(known) ELSE 10), mem))
  /\ UNCHANGED <<now, currentNetworkId, currentUserId, timers, connections, peerCache,
                 networkMembers, messageQueue, discoveryRequests, stack, running, wconns,
                 config, sigOpen, storage, routes, offline, registryCalls, received, results,
                 teardown, abandoned>>

\* Date.now() advances
Tick ==
  /\ now < MaxTime
  /\ now' = now + 1
  /\ UNCHANGED <<currentNetworkId, currentUserId, timers, connections, peerCache,
                 networkMembers, messageQueue, discoveryRequests, stack, running, wconns,
                 config, sigOpen, storage, routes, offline, net, registryCalls, received, results,
                 teardown, abandoned>>

\* signalingSocket.onclose: the socket is gone and a reconnect is scheduled
SignalingClosed(d) ==
  /\ Idle(d) /\ sigOpen[d] = "open"
  /\ sigOpen' = [sigOpen EXCEPT ![d] = "closed"]
  /\ UNCHANGED <<now, currentNetworkId, currentUserId, timers, connections, peerCache,
                 networkMembers, messageQueue, discoveryRequests, stack, running, wconns,
                 config, storage, routes, offline, net, registryCalls, received, results,
                 teardown, abandoned>>

\* the reconnect scheduled by onclose: connectToSignalingServer when a config is held
SignalingReconnect(d, open) ==
  /\ Idle(d) /\ sigOpen[d] = "closed"
  /\ sigOpen' = [sigOpen EXCEPT ![d] = IF config[d] /\ open THEN "open" ELSE "none"]
  /\ UNCHANGED <<now, currentNetworkId, currentUserId, timers, connections, peerCache,
                 networkMembers, messageQueue, discoveryRequests, stack, running, wconns,
                 config, storage, routes, offline, net, registryCalls, received, results,
                 teardown, abandoned>>

(* ----------------------------- environment ----------------------------- *)
\* a device whose code does not run sends message m on its open channel
EnvSends(d, p, m, g) ==
  /\ Idle(d) /\ UserOf(p) \notin running /\ WCanSend(d, p)
  /\ HandleP2PMessage(d, m, p, g)
  /\ UNCHANGED <<now, currentNetworkId, currentUserId, timers, connections,
                 messageQueue, running, wconns, config, sigOpen, storage,
                 offline, registryCalls, results, teardown, abandoned>>

\* such a device answers the PEER_QUERY it was sent
EnvPeerFound(d, p, ls, relay, g) ==
  /\ stack[d] # << >> /\ Top(d).pc \in {"t2", "t4w"} /\ p \in Top(d).asked
  /\ Top(d).user # UserOf(p)
  /\ EnvSends(d, p, Msg("PEER_FOUND", Top(d).req, Top(d).user, "none",
                        PeerInfo(Top(d).user, NoPeer, "s1", ls, FALSE, relay, "none"), 0), g)

\* such a device announces its presence, gossiping about at most one peer
EnvPresence(d, p, g, ts, known, members) ==
  EnvSends(d, p, Presence(UserOf(p), <<UserOf(p), g>>, ts, known, members), 1)

\* such a device relays a payload for user u through d
EnvRelay(d, p, u, body) ==
  EnvSends(d, p, Msg("RELAY", 0, u, body, NoInfo, 1), 1)

\* such a device begins a connection to d: its offer arrives over the signaling
\* socket of d
EnvOffer(d, p) ==
  /\ Idle(d) /\ UserOf(p) \notin running /\ p[2] = 0 /\ sigOpen[d] = "open"
  /\ net' = net \cup {[dst |-> d, from |-> p, msg |-> Msg("offer", 0, "none", "none", NoInfo, 0)]}
  /\ UNCHANGED <<now, currentNetworkId, currentUserId, timers, connections, peerCache,
                 networkMembers, messageQueue, discoveryRequests, stack, running, wconns,
                 config, sigOpen, storage, routes, offline, registryCalls, received, results,
                 teardown, abandoned>>

\* such a device answers the PEER_QUERY it was sent; its PEER_FOUND is in
\* flight until the data channel hands it to onmessage
EnvReply(d, p, relay) ==
  /\ d \in running /\ UserOf(p) \notin running
  /\ stack[d] # << >> /\ Top(d).pc \in {"t2", "t4w"} /\ p \in Top(d).asked
  /\ Top(d).user # UserOf(p)
  /\ net' = net \cup {[dst |-> d, from |-> p,
                       msg |-> Msg("PEER_FOUND", Top(d).req, Top(d).user, "none",
                                   PeerInfo(Top(d).user, NoPeer, "s1", 0, FALSE, relay, "none"), 0)]}
  /\ UNCHANGED <<now, currentNetworkId, currentUserId, timers, connections, peerCache,
                 networkMembers, messageQueue, discoveryRequests, stack, running, wconns,
                 config, sigOpen, storage, routes, offline, registryCalls, received, results,
                 teardown, abandoned>>

(* ------------------------------- initial ------------------------------- *)
\* the state after the constructor: heartbeat timer started, storage opened
\* as SQLite or, failing that, as the AsyncStorage fallback
InitWith(R) ==
  /\ now = 0
  /\ running = R
  /\ currentNetworkId = [d \in Dev |-> NoNet]
  /\ currentUserId = [d \in Dev |-> "none"]
  /\ timers = [d \in Dev |-> [heartbeat |-> TRUE, p2pPresence |-> FALSE,
                              registryPresence |-> FALSE]]
  /\ connections = [d \in Dev |-> << >>]
  /\ peerCache = [d \in Dev |-> << >>]
  /\ networkMembers = [d \in Dev |-> EmptyFn]
  /\ messageQueue = [d \in Dev |-> EmptyFn]
  /\ discoveryRequests = [d \in Dev |-> {}]
  /\ stack = [d \in Dev |-> << >>]
  /\ wconns = [d \in Dev |-> EmptyFn]
  /\ config = [d \in Dev |-> FALSE]
  /\ sigOpen = [d \in Dev |-> "none"]
  /\ storage \in [Dev -> {"sqlite", "fallback"}]
  /\ \A d \in Dev \ R : storage[d] = "sqlite"
  /\ routes = [d \in Dev |-> EmptyFn]
  /\ offline = [d \in Dev |-> << >>]
  /\ net = {}
  /\ registryCalls = [d \in Dev |-> {}]
  /\ received = [d \in Dev |-> {}]
  /\ results = [d \in Dev |-> {}]
  /\ teardown = [d \in Dev |-> << >>]
  /\ abandoned = [d \in Dev |-> {}]

(* ---------------------------- specifications --------------------------- *)
\* discovery, tiers 1 to 5 of one connectToPeer
Tiers(d) ==
  \/ Tier1(d)
  \/ DiscoveryTimeout(d)
  \/ QueryCachedPeer(d)
  \/ QueryCoordinators(d)
  \/ NextCoordinator(d)
  \/ QueryRegistry(d)
  \/ NotFound(d)

\* establishConnection
Establish(d) ==
  \/ CreateConnection(d)
  \/ SendOffer(d)
  \/ RegisterConnection(d)
  \/ StoreRouteAndReturn(d)

(* ---- store and forward: device A sends to D, logs out and in again ---- *)
InitMsg == InitWith({"A"})

NextMsg ==
  \/ Initialize("A", << >>, TRUE)
  \/ Destroy("A")
  \/ \E body \in Payloads : SendMessage("A", "D", body)
  \/ Tiers("A")
  \/ \E online \in BOOLEAN : RegistryResponse("A", online, 0)
  \/ Establish("A")
  \/ ReturnToSendMessage("A")
  \/ StoreAndReturnFalse("A")
  \/ DataChannelOpen("A", DeviceId("D"))
  \/ Tick

SpecMsg == InitMsg /\ [][NextMsg]_vars

\* the in-memory queue entries and the offline rows of a device
Entries(d) ==
  UNION {{[kind |-> "queue", to |-> u, body |-> messageQueue[d][u][i].body,
           queuedAt |-> messageQueue[d][u][i].queuedAt] :
            i \in 1 .. Len(messageQueue[d][u])} : u \in DOMAIN messageQueue[d]}
Rows(d) ==
  {[kind |-> "row", to |-> offline[d][i].toUserId, body |-> offline[d][i].content,
    queuedAt |-> offline[d][i].queuedAt] : i \in 1 .. Len(offline[d])}
Queued(d) == Entries(d) \cup Rows(d)

\* a call of sendMessage for the user and the payload returned true
Delivered(d, u, body) == \E r \in results[d] : r.to = u /\ r.body = body /\ r.ok

\* the age of a queued message exceeds the expiry TTL, counted in clock ticks
ExpiryTTL == 1
Expired(e) == now - e.queuedAt > ExpiryTTL

\* C5: whenever sendMessage returned false, a row for that destination and
\* payload was in the offline-message table when the call returned
C5_FalseMeansDurablyQueued ==
  \A d \in running : \A r \in results[d] : ~r.ok => r.row

\* C6: when every discovery tier failed for D, sendMessage(D, payload) returned
\* false and a row for D was in the offline-message table afterwards
C6_ExhaustionReturnsFalseWithRow ==
  \A d \in running : \A r \in results[d] :
    (r.to = "D" /\ ~r.found) => (~r.ok /\ r.row)

\* C7: a queued message, in the in-memory queue or in the offline-message
\* table, is deleted only if its delivery was confirmed or its age exceeds the
\* expiry TTL
C7_DeletedOnlyIfDeliveredOrExpired ==
  [][\A d \in running : \A e \in Queued(d) :
        e \notin Queued(d)' => (Delivered(d, e.to, e.body)' \/ Expired(e))]_vars

(* ------- the connection pool: device A connects to B, C and D ---------- *)
InitPool == InitWith({"A"})

\* the member list the presentation layer shows; its connect buttons are
\* pressed from the top, a member once the one above it has been tried and
\* while no negotiation with it is under way
Members == <<"B", "C", "D", "E", "F", "G">>
Pressable(d) ==
  {Members[i] : i \in {j \in 1 .. Len(Members) :
                         j = 1 \/ Members[j - 1] \in DOMAIN networkMembers[d]}}

NextPool ==
  \/ Initialize("A", << >>, TRUE)
  \/ \E u \in Pressable("A") :
       u \notin {UserOf(p) : p \in DOMAIN wconns["A"]} /\ ConnectToPeer("A", u)
  \/ Tiers("A")
  \/ \E online \in BOOLEAN : RegistryResponse("A", online, 0)
  \/ Establish("A")
  \/ ReturnToCaller("A")
  \/ Heartbeat("A")

SpecPool == InitPool /\ [][NextPool]_vars

\* C1: the number of entries of the PeerManager's connection table never
\* exceeds MAX_ACTIVE_CONNECTIONS
C1_PoolWithinCeiling ==
  \A d \in running : Len(connections[d]) <= MAX_ACTIVE_CONNECTIONS

(* ------ gossip: device A hears of C from the registry and from B ------- *)
InitGossip == InitWith({"A"})

\* what the registry lists at initialize: nothing, or B
RegistryPeer(u, coord) == PeerInfo(u, DeviceId(u), "s2", 0, coord, TRUE, "none")
RegistryLists == {<< >>, <<RegistryPeer("B", FALSE)>>}

\* what B's announcement says of the peers it knows: nothing, or a record of C
GossipLists ==
  {<< >>} \cup {<<PeerInfo("C", <<"C", g>>, "s1", ls, FALSE, TRUE, "none")>> :
                 g \in Gens, ls \in Times}
\* the member list of the same announcement: the peers it gossips about
MemberList(known) ==
  [i \in 1 .. Len(known) |->
     [userId |-> known[i].userId, status |-> "relay", lastSeen |-> known[i].lastSeen]]

NextGossip ==
  \/ \E peers \in RegistryLists : Initialize("A", peers, TRUE)
  \/ ConnectToPeer("A", "B")
  \/ Tiers("A")
  \/ \E online \in BOOLEAN : RegistryResponse("A", online, 0)
  \/ Establish("A")
  \/ ReturnToCaller("A")
  \/ DataChannelOpen("A", DeviceId("B"))
  \/ \E g \in 1 .. MaxGen, known \in GossipLists :
       /\ \A i \in 1 .. Len(known) : known[i].lastSeen <= now
       /\ EnvPresence("A", DeviceId("B"), g, now, known, MemberList(known))
  \/ Tick

SpecGossip == InitGossip /\ [][NextGossip]_vars

\* the records a device holds for a user: the cache entries and the stored route
CacheRecords(d, u) ==
  {[src |-> "cache", peerId |-> peerCache[d][i].v.peerId,
    signalAddress |-> peerCache[d][i].v.signalAddress,
    lastSeen |-> peerCache[d][i].v.lastSeen,
    connectionPath |-> peerCache[d][i].v.connectionPath] :
     i \in {j \in 1 .. Len(peerCache[d]) : peerCache[d][j].v.userId = u}}
RouteRecords(d, u) ==
  IF u \in DOMAIN routes[d]
    THEN {[src |-> "route", peerId |-> routes[d][u].peerId,
           signalAddress |-> routes[d][u].signalAddress,
           lastSeen |-> routes[d][u].lastSeen,
           connectionPath |-> routes[d][u].connectionPath]}
    ELSE {}
Records(d, u) == CacheRecords(d, u) \cup RouteRecords(d, u)

\* an update of a record that is held: the cache entry of the same peerId, or
\* the route of the same user
Replaces(new, old) ==
  /\ new.src = old.src
  /\ new.src = "cache" => new.peerId = old.peerId

\* C2: an update of a held peer record never moves its lastSeen backward, and
\* with a lastSeen that is not later it leaves connectionPath and signalAddress
\* as they were, in the peer cache and in the persisted route
C2_OlderUpdateDoesNotOverwrite ==
  [][\A d \in running : \A u \in Users : \A old \in Records(d, u) :
       \A new \in Records(d, u)' :
         Replaces(new, old) =>
           /\ new.lastSeen >= old.lastSeen
           /\ new.lastSeen = old.lastSeen =>
                /\ new.connectionPath = old.connectionPath
                /\ new.signalAddress = old.signalAddress]_vars

\* C3: while a record of a user with a later lastSeen is held, a merge of
\* gossip brings in no record of that user discovered via the sender, neither
\* in the peer cache nor as the persisted route, whatever peerId it carries
ViaPaths == {Via(u) : u \in Users}
C3_StaleGossipLeavesRecord ==
  [][\A d \in running : \A u \in Users :
       \A new \in Records(d, u)' \ Records(d, u) :
         new.connectionPath \in ViaPaths =>
           \A old \in Records(d, u) : old.lastSeen <= new.lastSeen]_vars

(* ---- tiers: A resolves B and C while the registry lists coordinator D -- *)
InitTiers == InitWith({"A"})

\* what the registry lists at initialize: nothing, or the coordinator D
CoordinatorLists == {<< >>, <<RegistryPeer("D", TRUE)>>}

NextTiers ==
  \/ \E peers \in CoordinatorLists : Initialize("A", peers, TRUE)
  \/ currentNetworkId["A"] = NoNet /\ Destroy("A")
  \/ \E u \in {"B", "C"} : ConnectToPeer("A", u)
  \/ Tiers("A")
  \/ \E online \in BOOLEAN : RegistryResponse("A", online, 0)
  \/ Establish("A")
  \/ ReturnToCaller("A")
  \/ ReturnToCoordinators("A")
  \/ DataChannelOpen("A", DeviceId("B"))
  \/ EnvPeerFound("A", DeviceId("B"), 0, TRUE, 0)

SpecTiers == InitTiers /\ [][NextTiers]_vars

\* the tiers a call of connectToPeer has entered so far
TierOrder == <<1, 2, 3, 4, 5>>
InOrder(f) == f.tried = SubSeq(TierOrder, 1, Len(f.tried))

\* C4: every resolution enters its tiers in the order 1 to 5, and the registry
\* is never called for a user from inside a resolution whose tier 4 is still
\* in progress
C4_RegistryOnlyAsLastResort ==
  \A d \in running :
    /\ \A i \in 1 .. Len(stack[d]) :
         stack[d][i].fn = "connectToPeer" => Len(stack[d][i].tried) <= 5 /\ InOrder(stack[d][i])
    /\ \A c \in registryCalls[d] : ~c.nested

\* the calls of connectToPeer that device d has in progress, outermost first
Calls(d) == SelectSeq(stack[d], LAMBDA f : f.fn = "connectToPeer")

\* C19: every call of connectToPeer returns after a bounded number of tier
\* attempts: no call is left waiting for a discovery request that destroy()
\* dropped, and the coordinator tier never re-enters connectToPeer for a user
\* whose resolution is already in progress
C19_CallsReturn ==
  \A d \in running :
    /\ abandoned[d] = {}
    /\ \A i, j \in 1 .. Len(Calls(d)) : i < j => Calls(d)[i].user # Calls(d)[j].user

(* ---- retry: A sends to D, which becomes reachable and stays reachable -- *)
InitFair == InitWith({"A"})

\* the steps of a call in progress
CallSteps(d) ==
  \/ Tiers(d)
  \/ \E online \in BOOLEAN : RegistryResponse(d, online, 0)
  \/ Establish(d)
  \/ ReturnToSendMessage(d)
  \/ StoreAndReturnFalse(d)

\* the interval timers of the PeerManager
Timers(d) ==
  \/ Heartbeat(d)
  \/ \E g \in 1 .. MaxGen : BroadcastPresenceToP2P(d, g)

NextFair ==
  \/ Initialize("A", << >>, TRUE)
  \/ \E body \in Payloads : SendMessage("A", "D", body)
  \/ CallSteps("A")
  \/ Timers("A")
  \/ DataChannelOpen("A", DeviceId("D"))
  \/ Tick

\* a call in progress goes on, the timers keep firing and a channel that can
\* open does open; no connection is ever closed by the peer or the network
SpecFair ==
  /\ InitFair /\ [][NextFair]_vars
  /\ WF_vars(CallSteps("A"))
  /\ WF_vars(Timers("A"))
  /\ WF_vars(DataChannelOpen("A", DeviceId("D")))

\* the device holds a connected entry for the user with an open channel
ConnectedTo(d, u) ==
  \E i \in 1 .. Len(connections[d]) :
    /\ UserOf(connections[d][i].k) = u
    /\ connections[d][i].v.state = "connected"
    /\ WCanSend(d, connections[d][i].k)

\* C8: a message queued for D while D is connected, or before it became so, is
\* eventually delivered
C8_QueuedIsEventuallyDelivered ==
  \A body \in Payloads :
    ((\E e \in Queued("A") : e.to = "D" /\ e.body = body) /\ ConnectedTo("A", "D"))
      ~> Delivered("A", "D", body)

(* ------ relay: A and B run the code and connect to each other, D is ----- *)
(* ------ offline                                                     ----- *)
InitRelay == InitWith({"A", "B"}) /\ \A d \in {"A", "B"} : storage[d] = "sqlite"

\* the registry knows every user but D as online
Online(d) == stack[d] # << >> /\ Top(d).user # "D"

\* the steps of a device that need no other device whose code runs: its calls
\* in progress and the events of its connections
LocalSteps(d) ==
  \/ Tiers(d)
  \/ RegistryResponse(d, Online(d), 0)
  \/ Establish(d)
  \/ ReturnToCaller(d)
  \/ ReturnToSendMessage(d)
  \/ StoreAndReturnFalse(d)
  \/ HandleOffer(d)
  \/ \E p \in PeerIds : DataChannelOpen(d, p)

\* the steps of a device: those and the messages of other devices it handles
DeviceSteps(d) == LocalSteps(d) \/ Deliver(d)

\* each device initializes once and asks for the other while it holds no
\* connection of its own; A sends one message to D
NextRelay ==
  \/ \E d \in {"A", "B"} : currentNetworkId[d] = NoNet /\ Initialize(d, << >>, TRUE)
  \/ connections["A"] = << >> /\ ConnectToPeer("A", "B")
  \/ connections["B"] = << >> /\ ConnectToPeer("B", "A")
  \/ results["A"] = {} /\ SendMessage("A", "D", "m1")
  \/ \E d \in {"A", "B"} : DeviceSteps(d)

SpecRelay == InitRelay /\ [][NextRelay]_vars

\* C9: no RELAY envelope is forwarded as often as the largest number of hops
\* that is followed here
C9_RelayDepthIsCapped ==
  \A x \in net : x.msg.type = "RELAY" => x.msg.hops < MaxHops

(* ------ chain: A and B run the code, C is a peer B connects to ---------- *)
InitChain == InitWith({"A", "B"}) /\ \A d \in {"A", "B"} : storage[d] = "sqlite"

\* no connection between A and B has been begun from either side
NoLink == DeviceId("B") \notin DOMAIN wconns["A"] /\ DeviceId("A") \notin DOMAIN wconns["B"]

\* the links A-B and B-C are up
Chain(links) == <<"A", DeviceId("B")>> \in links /\ <<"B", DeviceId("C")>> \in links

\* each device initializes once; A or B begins the connection between them, B
\* the one to C; A sends one message to C once both links are up
NextChain ==
  \/ \E d \in {"A", "B"} : currentNetworkId[d] = NoNet /\ Initialize(d, << >>, TRUE)
  \/ NoLink /\ ConnectToPeer("A", "B")
  \/ NoLink /\ ConnectToPeer("B", "A")
  \/ DeviceId("C") \notin DOMAIN wconns["B"] /\ ConnectToPeer("B", "C")
  \/ results["A"] = {} /\ Chain(Links) /\ SendMessage("A", "C", "m1")
  \/ \E d \in {"A", "B"} : DeviceSteps(d)

SpecChain == InitChain /\ [][NextChain]_vars

\* C10: a sendMessage(C, payload) of A that begins and ends while A is connected
\* to B and B to C returns true, the payload having left in a RELAY envelope
\* through B
C10_ChainDeliversByRelay ==
  \A r \in results["A"] :
    (r.to = "C" /\ Chain(r.links0) /\ Chain(r.links)) => (r.ok /\ r.how = "relay")

(* ---- hub: A runs the code; the coordinator K and the peer B, which is --- *)
(* ---- connected to K, are devices of the environment                  --- *)
InitHub == InitWith({"A"}) /\ storage["A"] = "sqlite"

\* A is connected to the coordinator
Hub(links) == <<"A", DeviceId("K")>> \in links

\* A holds no connection for B, not even one that is being negotiated
NoDirect == \A p \in DOMAIN wconns["A"] : UserOf(p) # "B"

\* A initializes once; A or the coordinator begins the connection between
\* them; A sends m1 to B, the negotiation of the connection that this begins
\* fails, and A sends m2
NextHub ==
  \/ currentNetworkId["A"] = NoNet /\ Initialize("A", << >>, TRUE)
  \/ DeviceId("K") \notin DOMAIN wconns["A"] /\ ConnectToPeer("A", "K")
  \/ DeviceId("K") \notin DOMAIN wconns["A"] /\ EnvOffer("A", DeviceId("K"))
  \/ results["A"] = {} /\ Hub(Links) /\ SendMessage("A", "B", "m1")
  \/ \E p \in PeerIds : UserOf(p) = "B" /\ results["A"] # {} /\ IceDisconnected("A", p)
  \/ /\ \E r \in results["A"] : r.body = "m1" /\ r.found
     /\ \A r \in results["A"] : r.body = "m1"
     /\ NoDirect /\ Hub(Links)
     /\ SendMessage("A", "B", "m2")
  \/ \E g \in 1 .. MaxGen : EnvPeerFound("A", DeviceId("K"), 0, TRUE, g)
  \/ LocalSteps("A")

SpecHub == InitHub /\ [][NextHub]_vars

\* C11: the sendMessage(B, m2) of A that follows the failed negotiation with B
\* and runs while A and B are connected to the coordinator returns true, the
\* payload having left in a RELAY envelope
C11_RelayThroughCoordinator ==
  \A r \in results["A"] :
    (r.to = "B" /\ r.body = "m2" /\ Hub(r.links0) /\ Hub(r.links)) => (r.ok /\ r.how = "relay")

(* ---- teardown: A connects to B, accepts an offer of C, and is destroyed  *)
InitTeardown == InitWith({"A"})

\* the statement of destroy() that throws, if any
Failures == {"none", "close", "service"}

NextTeardown ==
  \/ teardown["A"] = << >> /\ Initialize("A", << >>, TRUE)
  \/ teardown["A"] = << >> /\ ConnectToPeer("A", "B")
  \/ DeviceId("C") \notin DOMAIN wconns["A"] /\ EnvOffer("A", DeviceId("C"))
  \/ HandleOffer("A")
  \/ Tiers("A")
  \/ \E online \in BOOLEAN : RegistryResponse("A", online, 0)
  \/ Establish("A")
  \/ ReturnToCaller("A")
  \/ \E p \in PeerIds : DataChannelOpen("A", p)
  \/ Timers("A")
  \/ \E fail \in Failures : DestroyWith("A", fail)
  \/ \E open \in BOOLEAN : SignalingReconnect("A", open)

SpecTeardown == InitTeardown /\ [][NextTeardown]_vars

\* the place of a step in the order that teardown has to keep; the close of a
\* connection that was closed or failed already has none
Rank(e) ==
  CASE e.step = "timers" -> 1
    [] e.step = "close" -> IF e.live THEN 2 ELSE 0
    [] e.step = "signaling" -> 3
    [] e.step = "requests" -> 4
    [] e.step = "caches" -> 5
    [] OTHER -> 6

\* C12: the steps of destroy() run in this order: the timers are stopped, then
\* every live connection is closed, then the signaling channel, then the
\* discovery requests are cancelled, the caches cleared and the storage closed
C12_TeardownOrder ==
  \A d \in running : \A i, j \in 1 .. Len(teardown[d]) :
    (i < j /\ Rank(teardown[d][i]) # 0 /\ Rank(teardown[d][j]) # 0)
      => Rank(teardown[d][i]) <= Rank(teardown[d][j])

\* destroy() has run to its end and initialize has not been called since
Destroyed(d) ==
  /\ teardown[d] # << >> /\ teardown[d][Len(teardown[d])].step = "storage"
  /\ currentNetworkId[d] = NoNet

\* C13: once destroy() has run, no entry for a peer connection is created and
\* the signaling socket is not opened again
C13_NothingOpensAfterDestroy ==
  [][\A d \in running :
       (Destroyed(d) /\ Destroyed(d)') =>
         /\ DOMAIN wconns'[d] \subseteq DOMAIN wconns[d]
         /\ sigOpen'[d] = "open" => sigOpen[d] = "open"]_vars

\* C14: when destroy() has returned, whether or not a statement of it threw,
\* the discovery requests, the caches and the connection table are empty and
\* the storage handle is closed
C14_TeardownIsTotal ==
  [][\A d \in running :
       teardown'[d] # teardown[d] =>
         /\ discoveryRequests'[d] = {}
         /\ peerCache'[d] = << >> /\ networkMembers'[d] = EmptyFn
         /\ connections'[d] = << >>
         /\ storage'[d] # "sqlite"]_vars

(* ---- negotiation: device A dials B and is dialled by B, ICE and the ---- *)
(* ---- data channel come up or fail, the signaling socket drops       ---- *)
InitConnect == InitWith({"A"}) /\ storage["A"] = "sqlite"

NextConnect ==
  \/ currentNetworkId["A"] = NoNet /\ \E open \in BOOLEAN : Initialize("A", << >>, open)
  \/ ConnectToPeer("A", "B")
  \/ EnvOffer("A", DeviceId("B"))
  \/ HandleOffer("A")
  \/ Tiers("A")
  \/ RegistryResponse("A", TRUE, 0)
  \/ Establish("A")
  \/ ReturnToCaller("A")
  \/ \E p \in PeerIds : IceConnected("A", p)
  \/ \E p \in DOMAIN wconns["A"] : wconns["A"][p].ice = "connected" /\ DataChannelOpen("A", p)
  \/ \E p \in PeerIds : IceDisconnected("A", p)
  \/ \E p \in PeerIds : DataChannelClose("A", p)
  \/ SignalingClosed("A")
  \/ \E open \in BOOLEAN : SignalingReconnect("A", open)

SpecConnect == InitConnect /\ [][NextConnect]_vars

\* C15: a connection is connected, in the WebRTC service and in the
\* PeerManager's table, only when ICE is connected and the data channel is open
C15_ConnectedNeedsIceAndChannel ==
  \A d \in running : \A p \in DOMAIN wconns[d] :
    (\/ wconns[d][p].state = "connected"
     \/ MapHas(connections[d], p) /\ MapGet(connections[d], p).state = "connected")
      => (wconns[d][p].ice = "connected" /\ wconns[d][p].dc = "open")

\* createConnection for p gives up in this step: sending the offer failed
OfferFails(d, p) ==
  /\ stack[d] # << >> /\ Top(d).pc = "estw" /\ Top(d).info.peerId = p
  /\ stack'[d] # << >> /\ stack'[d][Len(stack'[d])].pc = "ret"

\* ICE of the negotiation with p reports failed or disconnected in this step
IceFails(d, p) ==
  /\ p \in DOMAIN wconns[d] /\ wconns[d][p].state = "connecting"
  /\ p \notin DOMAIN wconns'[d] /\ teardown'[d] = teardown[d]

\* C16: when the negotiation with p fails, by ICE or while the offer is
\* created and sent, no entry for p stays in the WebRTC table or in the
\* PeerManager's table
C16_FailureLeavesNoEntry ==
  [][\A d \in running : \A p \in PeerIds :
       (OfferFails(d, p) \/ IceFails(d, p))
         => (p \notin DOMAIN wconns'[d] /\ ~MapHas(connections'[d], p))]_vars

\* a new negotiation context for p is made in this step, by createConnection
\* or by handleOffer
NewContext(d, p) ==
  \/ /\ stack[d] # << >> /\ Top(d).pc = "est" /\ Top(d).info.peerId = p
     /\ stack'[d] # << >> /\ stack'[d][Len(stack'[d])].pc = "estw"
  \/ /\ config[d]
     /\ \E x \in net : x.dst = d /\ x.msg.type = "offer" /\ x.from = p /\ net' = net \ {x}

\* the context the table holds for p is closed in this step (closeConnection)
ContextClosed(d, p) == teardown'[d] # teardown[d]

\* C17: a new negotiation context for p is never made next to a live one:
\* the entry p has is closed first or it is reused
C17_OneLiveContextPerPeer ==
  [][\A d \in running : \A p \in PeerIds :
       (NewContext(d, p) /\ Live(d, p)) => ContextClosed(d, p)]_vars

(* ---- discovery requests: A, connected to B and C, looks for D; both ---- *)
(* ---- may answer, before or after the request timed out              ---- *)
InitDiscovery == InitWith({"A"}) /\ storage["A"] = "sqlite"

Neighbours == {DeviceId("B"), DeviceId("C")}

NextDiscovery ==
  \/ currentNetworkId["A"] = NoNet /\ Initialize("A", << >>, TRUE)
  \/ \E p \in Neighbours : p \notin DOMAIN wconns["A"] /\ EnvOffer("A", p)
  \/ HandleOffer("A")
  \/ \E p \in Neighbours : DataChannelOpen("A", p)
  \/ "D" \notin {UserOf(p) : p \in DOMAIN wconns["A"]} /\ ConnectToPeer("A", "D")
  \/ Tiers("A")
  \/ \E online \in BOOLEAN : RegistryResponse("A", online, 0)
  \/ Establish("A")
  \/ ReturnToCaller("A")
  \/ \E p \in Neighbours, relay \in BOOLEAN : EnvReply("A", p, relay)
  \/ Deliver("A")

SpecDiscovery == InitDiscovery /\ [][NextDiscovery]_vars

\* the data channel hands PEER_FOUND message x to device d in this step
PeerFoundArrives(d, x) ==
  /\ x \in net /\ x \notin net' /\ x.dst = d /\ x.msg.type = "PEER_FOUND"
  /\ WCanSend(d, x.from)

\* the promise of request r is settled in this step: the call that awaited it goes on
Settled(d, r) == Awaits(d, r) /\ ~Awaits(d, r)'

\* C18: a discovery request is settled exactly once. A call leaves its wait
\* only as its request is retired; a PEER_FOUND for a pending request retires
\* it and resolves it with the record of the reply; a PEER_FOUND for a request
\* that a reply or the timeout has retired changes nothing
C18_SettledExactlyOnce ==
  [][\A d \in running :
       /\ \A r \in ReqIds :
            /\ Awaits(d, r) => r \in discoveryRequests[d]
            /\ Settled(d, r) => r \notin discoveryRequests'[d]
       /\ \A x \in net : PeerFoundArrives(d, x) =>
            IF x.msg.requestId \in discoveryRequests[d]
              THEN /\ discoveryRequests'[d] = discoveryRequests[d] \ {x.msg.requestId}
                   /\ Settled(d, x.msg.requestId)
                   /\ stack'[d][Len(stack'[d])].pc = "est"
                   /\ stack'[d][Len(stack'[d])].info.userId = x.msg.user
              ELSE UNCHANGED <<now, currentNetworkId, currentUserId, timers, connections,
                               peerCache, networkMembers, messageQueue, discoveryRequests,
                               stack, running, wconns, config, sigOpen, storage, routes,
                               offline, registryCalls, received, results, teardown,
                               abandoned>>]_vars

\* the request of A's call is retired, by a reply or by its timeout, and a
\* reply that names it is still to arrive on an open channel
C18_LateReplyPending ==
  /\ stack["A"] # << >> /\ Top("A").pc \notin {"t1", "t2"} /\ Top("A").req # 0
  /\ Top("A").req \notin discoveryRequests["A"]
  /\ \E x \in net : x.dst = "A" /\ x.msg.type = "PEER_FOUND" /\ x.msg.requestId = Top("A").req
                    /\ WCanSend("A", x.from)

(* ---- coordinators: A is connected to the coordinators K and G and   ---- *)
(* ---- looks for B, whom nobody but a coordinator can name            ---- *)
InitCoordinators == InitWith({"A"}) /\ storage["A"] = "sqlite"

TwoCoordinators == <<RegistryPeer("K", TRUE), RegistryPeer("G", TRUE)>>

\* device d dialled user u, or was dialled by u
Dialled(d, u) == u \in {UserOf(p) : p \in DOMAIN wconns[d]}

NextCoordinators ==
  \/ currentNetworkId["A"] = NoNet /\ Initialize("A", TwoCoordinators, TRUE)
  \/ \E u \in {"K", "G"} : ~Dialled("A", u) /\ ConnectToPeer("A", u)
  \/ \E u \in {"K", "G"} : DataChannelOpen("A", DeviceId(u))
  \/ ~Dialled("A", "B") /\ ConnectToPeer("A", "B")
  \/ Tiers("A")
  \/ \E online \in BOOLEAN : RegistryResponse("A", online, 0)
  \/ Establish("A")
  \/ ReturnToCaller("A")
  \/ ReturnToCoordinators("A")
  \/ \E u \in {"K", "G"}, g \in 1 .. MaxGen : EnvPeerFound("A", DeviceId(u), 0, TRUE, g)

SpecCoordinators == InitCoordinators /\ [][NextCoordinators]_vars

\* the coordinator tier of call f ended without a record
CoordinatorsGaveUp(f) ==
  f.fn = "connectToPeer" /\ f.pc = "t5" /\ \E i \in 1 .. Len(f.tried) : f.tried[i] = 4

\* the coordinators of f's list that its loop never came to
NeverTried(f) == IF f.coords = << >> THEN << >> ELSE Tail(f.coords)

\* connectToPeer for coordinator c would return a connection: tier 1 finds
\* one, or tier 3 reads c's route and createConnection can send its offer
CanBeConnected(d, c) ==
  \/ FindExistingConnection(d, c.userId) # NoPeer
  \/ CanRead(d) /\ c.userId \in DOMAIN routes[d] /\ config[d] /\ sigOpen[d] = "open"

\* C20: the coordinator tier ends without a record only after its loop has
\* come to every coordinator that can be connected to
C20_EveryCoordinatorIsTried ==
  \A d \in running :
    (stack[d] # << >> /\ CoordinatorsGaveUp(Top(d)))
      => \A i \in 1 .. Len(NeverTried(Top(d))) : ~CanBeConnected(d, NeverTried(Top(d))[i])

(* ---- flush: A queues messages for D, who cannot be found, and then  ---- *)
(* ---- flushes D's queue                                              ---- *)
InitFlush == InitWith({"A"})

NextFlush ==
  \/ currentNetworkId["A"] = NoNet /\ Initialize("A", << >>, TRUE)
  \/ \E body \in {"m1", "m2"} : SendMessage("A", "D", body)
  \/ FlushMessageQueue("A", "D")
  \/ FlushNext("A")
  \/ FlushResumes("A")
  \/ Tiers("A")
  \/ \E online \in BOOLEAN : RegistryResponse("A", online, 0)
  \/ Establish("A")
  \/ ReturnToSendMessage("A")
  \/ StoreAndReturnFalse("A")

SpecFlush == InitFlush /\ [][NextFlush]_vars

\* C21: a flush hands to sendMessage only the messages that were queued when
\* it started, each once: it never makes more attempts than the queue was long
C21_FlushAttemptsEachQueuedOnce ==
  \A d \in running : \A i \in 1 .. Len(stack[d]) :
    stack[d][i].fn = "flushMessageQueue" => stack[d][i].idx <= stack[d][i].len0

(* ---- membership samples: B and C, both connected to A, announce     ---- *)
(* ---- what they know of member D                                     ---- *)
InitMembers == InitWith({"A"}) /\ storage["A"] = "sqlite"

\* the networkMembers list of an announcement: one sample of D
Samples ==
  {<<[userId |-> "D", status |-> st, lastSeen |-> ls]>> :
     st \in {"direct", "relay", "offline"}, ls \in Times}

NextMembers ==
  \/ currentNetworkId["A"] = NoNet /\ Initialize("A", << >>, TRUE)
  \/ \E p \in Neighbours : p \notin DOMAIN wconns["A"] /\ EnvOffer("A", p)
  \/ HandleOffer("A")
  \/ \E p \in Neighbours : DataChannelOpen("A", p)
  \/ \E p \in Neighbours, members \in Samples :
       EnvPresence("A", p, 1, now, << >>, members)
  \/ Tick

SpecMembers == InitMembers /\ [][NextMembers]_vars

\* C22: the membership entry of a user known from samples only changes with a
\* sample whose lastSeen is strictly greater than the entry's; otherwise
\* status, connectionPath and lastSeen stay as they were
C22_SampleTakenOnlyIfNewer ==
  [][\A d \in running :
       ("D" \in DOMAIN networkMembers[d] /\ "D" \in DOMAIN networkMembers'[d]
          /\ networkMembers'[d]["D"] # networkMembers[d]["D"])
         => networkMembers'[d]["D"].lastSeen > networkMembers[d]["D"].lastSeen]_vars

\* A holds for D an entry it took from C's sample, later than the earliest
\* time, while B, whose samples may be older, equal or newer, can announce
C22_EntryFromSampleHeld ==
  /\ "D" \in DOMAIN networkMembers["A"]
  /\ networkMembers["A"]["D"].connectionPath = Via("C")
  /\ networkMembers["A"]["D"].lastSeen >= 1
  /\ WCanSend("A", DeviceId("B"))

\* device d holds a connection in state connected to user u, in the
\* PeerManager's table or in the WebRTC service's
HoldsConnected(d, u) ==
  \E p \in PeerIds :
    /\ UserOf(p) = u
    /\ \/ MapHas(connections[d], p) /\ MapGet(connections[d], p).state = "connected"
       \/ p \in DOMAIN wconns[d] /\ wconns[d][p].state = "connected"

\* C23: a user's membership status is direct only while the device holds a
\* connected connection to that user
C23_DirectMeansConnected ==
  \A d \in running : \A u \in DOMAIN networkMembers[d] :
    networkMembers[d][u].status = "direct" => HoldsConnected(d, u)

(* ---- cleanup: routes and queued messages of different ages are kept ---- *)
(* ---- in the SQLite database or in AsyncStorage, and cleaned up      ---- *)
\* Date.now() at clock tick t, in milliseconds; every timestamp the
\* PeerManager stores is such a reading
Ms(t) == (Epoch + t) * MsPerSecond
MaxAge == MaxAgeTicks * MsPerSecond

\* PeerStorageService.cleanupStaleData: the cutoff is turned into seconds and
\* compared with the stored last_seen and queued_at
SqliteCutoff == (Ms(now) - MaxAge) \div MsPerSecond
SqliteKeepsRoute(r) == ~(Ms(r.lastSeen) < SqliteCutoff)
SqliteKeepsMessage(e) == ~(Ms(e.queuedAt) < SqliteCutoff)

\* PeerStorageFallbackService.cleanupStaleData: the entries later than the
\* cutoff in milliseconds are written back
FallbackCutoff == Ms(now) - MaxAge
FallbackKeepsRoute(r) == Ms(r.lastSeen) > FallbackCutoff
FallbackKeepsMessage(e) == Ms(e.queuedAt) > FallbackCutoff

\* peerStorage.cleanupStaleData(networkId, maxAge) on the backend in use; with
\* the database closed it throws before it deletes anything
CleanupStaleData(d) ==
  /\ Idle(d) /\ stack[d] = << >> /\ currentNetworkId[d] # NoNet
  /\ Len(teardown[d]) < MaxSends
  /\ teardown' = [teardown EXCEPT ![d] = Append(@, Step("cleanup", NoPeer, FALSE))]
  /\ CASE storage[d] = "sqlite" ->
            /\ routes' = [routes EXCEPT ![d] =
                  [u \in {x \in DOMAIN @ : SqliteKeepsRoute(@[x])} |-> @[u]]]
            /\ offline' = [offline EXCEPT ![d] = SelectSeq(@, SqliteKeepsMessage)]
       [] storage[d] = "fallback" ->
            /\ routes' = [routes EXCEPT ![d] =
                  [u \in {x \in DOMAIN @ : FallbackKeepsRoute(@[x])} |-> @[u]]]
            /\ offline' = [offline EXCEPT ![d] = SelectSeq(@, FallbackKeepsMessage)]
       [] OTHER -> UNCHANGED <<routes, offline>>
  /\ UNCHANGED <<now, currentNetworkId, currentUserId, timers, connections, peerCache,
                 networkMembers, messageQueue, discoveryRequests, stack, running, wconns,
                 config, sigOpen, storage, net, registryCalls, received, results, abandoned>>

InitCleanup == InitWith({"A"})

NextCleanup ==
  \/ currentNetworkId["A"] = NoNet /\ \E peers \in RegistryLists : Initialize("A", peers, TRUE)
  \/ \E body \in Payloads : SendMessage("A", "D", body)
  \/ Tiers("A")
  \/ \E online \in BOOLEAN : RegistryResponse("A", online, 0)
  \/ Establish("A")
  \/ ReturnToSendMessage("A")
  \/ StoreAndReturnFalse("A")
  \/ Tick
  \/ CleanupStaleData("A")

SpecCleanup == InitCleanup /\ [][NextCleanup]_vars

\* a timestamp of tick t is older, or newer, than now - maxAge
Older(t) == Ms(t) < Ms(now) - MaxAge
Newer(t) == Ms(t) > Ms(now) - MaxAge

\* the elements of a sequence
Range(q) == {q[i] : i \in 1 .. Len(q)}

\* cleanupStaleData of device d ran in this step
CleanupRan(d) ==
  /\ Len(teardown'[d]) = Len(teardown[d]) + 1
  /\ teardown'[d][Len(teardown'[d])].step = "cleanup"

\* C24: a cleanup deletes every route and every queued message that is older
\* than now - maxAge and keeps every newer one, on either backend
C24_CleanupDeletesExactlyTheOld ==
  [][\A d \in running : (CleanupRan(d) /\ storage[d] # "closed") =>
       /\ \A u \in DOMAIN routes[d] :
            /\ Older(routes[d][u].lastSeen) => u \notin DOMAIN routes'[d]
            /\ Newer(routes[d][u].lastSeen) => u \in DOMAIN routes'[d]
       /\ \A i \in 1 .. Len(offline[d]) :
            /\ Older(offline[d][i].queuedAt) => offline[d][i] \notin Range(offline'[d])
            /\ Newer(offline[d][i].queuedAt) => offline[d][i] \in Range(offline'[d])]_vars

\* the entries of the peer cache of device d that name user u
CachedFor(d, u) == {i \in 1 .. Len(peerCache[d]) : peerCache[d][i].v.userId = u}

\* C25: the peer cache holds at most one record per user, and so does the
\* persisted route table, which is keyed by the user
C25_OneRecordPerUser ==
  \A d \in running : \A u \in Users : Cardinality(CachedFor(d, u)) <= 1

\* C26: while the session is active a reconnect stays scheduled until one
\* succeeds: a dropped signaling socket is next either open again or still
\* waiting for another attempt
C26_ReconnectKeepsTrying ==
  [][\A d \in running :
       (config[d] /\ config'[d] /\ sigOpen[d] = "closed")
         => sigOpen'[d] \in {"closed", "open"}]_vars

(* ---- sweep: B dials A, A dials B back, and the heartbeat sweeps the ---- *)
(* ---- connection table                                               ---- *)
InitSweep == InitWith({"A"}) /\ storage["A"] = "sqlite"

NextSweep ==
  \/ currentNetworkId["A"] = NoNet /\ Initialize("A", << >>, TRUE)
  \/ ~Dialled("A", "B") /\ EnvOffer("A", DeviceId("B"))
  \/ HandleOffer("A")
  \/ DataChannelOpen("A", DeviceId("B"))
  \/ ConnectToPeer("A", "B")
  \/ Tiers("A")
  \/ \E online \in BOOLEAN : RegistryResponse("A", online, 0)
  \/ Establish("A")
  \/ ReturnToCaller("A")
  \/ Tick
  \/ Heartbeat("A")

SpecSweep == InitSweep /\ [][NextSweep]_vars

\* cleanupStaleConnections deletes the entry of p and closes its connection in
\* this step
Swept(d, p) ==
  /\ MapHas(connections[d], p) /\ ~MapHas(connections'[d], p)
  /\ p \in DOMAIN wconns[d] /\ p \notin DOMAIN wconns'[d]
  /\ teardown'[d] = teardown[d]

\* C27: the sweep closes only connections that are failed or were not
\* connected for longer than the threshold, and never one whose channel is
\* connected and open
C27_SweepSparesOpenChannels ==
  [][\A d \in running : \A p \in PeerIds :
       Swept(d, p) =>
         /\ Stale(MapGet(connections[d], p))
         /\ ~(wconns[d][p].state = "connected" /\ wconns[d][p].dc = "open")]_vars

\* getActiveConnections of the PeerManager, and the connections
\* getActiveConnectionsCount counts in the WebRTC service
ManagerActive(d) ==
  {p \in MapKeys(connections[d]) : MapGet(connections[d], p).state = "connected"}

\* C28: the PeerManager's table and the WebRTC service's table name the same
\* peers as connected
C28_TablesAgree ==
  \A d \in running : ManagerActive(d) = WActive(d)

(* ----------------- events of a superseded negotiation ------------------ *)
\* A dials B, and B's own offer replaces the entry while the first context is
\* still alive; the only connection events are those of the first context
NextStale ==
  \/ currentNetworkId["A"] = NoNet /\ Initialize("A", << >>, TRUE)
  \/ \E u \in {"B", "C"} : ConnectToPeer("A", u)
  \/ Tiers("A")
  \/ \E online \in BOOLEAN : RegistryResponse("A", online, 0)
  \/ Establish("A")
  \/ ReturnToCaller("A")
  \/ \E u \in {"B", "C"} : ~Dialled("A", u) /\ EnvOffer("A", DeviceId(u))
  \/ HandleOffer("A")
  \/ \E p \in PeerIds : StaleIceFailed("A", p)
  \/ \E p \in PeerIds : StaleChannelOpen("A", p)

SpecStale == InitSweep /\ [][NextStale]_vars

\* a step that is an event of the context that the entry of p superseded: no
\* call advances, no message is taken and the clock stands
StaleEvent(d, p) ==
  /\ p \in DOMAIN wconns[d] /\ wconns[d][p].older
  /\ stack' = stack /\ net' = net /\ now' = now
  /\ currentNetworkId' = currentNetworkId

\* C29: an event raised by a superseded negotiation context neither removes the
\* newer connection's entry from either table nor changes its state
C29_StaleEventSparesNewer ==
  [][\A d \in running : \A p \in PeerIds :
       StaleEvent(d, p) =>
         /\ p \in DOMAIN wconns'[d] /\ wconns'[d][p].state = wconns[d][p].state
         /\ MapHas(connections[d], p) =>
              /\ MapHas(connections'[d], p)
              /\ MapGet(connections'[d], p).state = MapGet(connections[d], p).state]_vars

(* --------------- sessions: sign-in, sign-out, sign-in again ------------- *)
\* the one PeerManager of the app is initialized, destroyed and initialized
\* again; while a session lasts the device dials B and its timers fire
SessionSteps(d) ==
  \/ Tiers(d)
  \/ \E online \in BOOLEAN : RegistryResponse(d, online, 0)
  \/ Establish(d)
  \/ ReturnToCaller(d)

NextSession ==
  \/ currentNetworkId["A"] = NoNet /\ Initialize("A", << >>, TRUE)
  \/ currentNetworkId["A"] # NoNet /\ Destroy("A")
  \/ currentNetworkId["A"] # NoNet /\ ConnectToPeer("A", "B")
  \/ SessionSteps("A")
  \/ Timers("A")
  \/ Tick

\* a call in progress goes on and the timers that are set keep firing
SpecSession ==
  /\ InitTeardown /\ [][NextSession]_vars
  /\ WF_vars(SessionSteps("A"))
  /\ WF_vars(Timers("A"))

\* initialize() was called after a destroy() that ran to its end
Restarted(d) ==
  /\ currentNetworkId[d] # NoNet
  /\ teardown[d] # << >> /\ teardown[d][Len(teardown[d])].step = "storage"

\* the heartbeat interval is set and the storage can be written and read
Operational(d) == timers[d].heartbeat /\ storage[d] # "closed"

\* C30: a session started by initialize() after a destroy() becomes fully
\* operational: its heartbeat timer runs and its storage is open
C30_RestartedSessionRuns ==
  \A d \in Dev : (d \in running /\ Restarted(d)) ~> Operational(d)

====
